---- MODULE Spec2Model ----
(***************************************************************************)
(* Model of src/output/accounts.py: the Account ledger engine, its        *)
(* Transaction record, the quantization helper and the default price      *)
(* oracle, driven by concurrent callers that share one Account.           *)
(*                                                                         *)
(* Money is counted in thousandths of a currency unit, so that Decimal    *)
(* arguments with three fraction digits (0.005) and the half-up rounding  *)
(* to 0.01 are both representable: 1.00 is 1000, 0.01 is 10.              *)
(***************************************************************************)
EXTENDS Integers, Sequences, FiniteSets, TLC

\* ------------------------------------------------------------------ bounds
\* Total number of public calls made on the account by all callers.
MaxCalls == 2

\* The concurrent callers (threads) sharing the Account instance.
Threads == {"t1", "t2"}

NoThread == "nobody"

\* ------------------------------------------------------ optional values
None == <<>>
Some(v) == <<v>>
IsNone(o) == Len(o) = 0
Val(o) == o[1]

\* --------------------------------------------------- typed Python values
\* isinstance(x, Decimal) / isinstance(x, str) / isinstance(x, int) are
\* decided by the kind of the value.
Dec(n) == [kind |-> "Decimal", v |-> n]
NotADecimal == [kind |-> "float", v |-> 0]
IntV(n) == [kind |-> "int", v |-> n]
NotAnInt == [kind |-> "float", v |-> 0]
StrV(s) == [kind |-> "str", v |-> s]
NotAStr == [kind |-> "int", v |-> <<>>]

\* --------------------------------------------------------------- strings
\* A string is a sequence of one-character strings.
AAPL == <<"A", "A", "P", "L">>
TSLA == <<"T", "S", "L", "A">>
GOOGL == <<"G", "O", "O", "G", "L">>

\* str.upper() on the characters used by the model.
UpperChar(c) ==
    CASE c = "a" -> "A"
      [] c = "p" -> "P"
      [] c = "l" -> "L"
      [] c = "t" -> "T"
      [] c = "s" -> "S"
      [] c = "g" -> "G"
      [] c = "o" -> "O"
      [] OTHER -> c

Upper(s) == [i \in 1..Len(s) |-> UpperChar(s[i])]

RECURSIVE LStrip(_)
LStrip(s) == IF Len(s) > 0 /\ s[1] = " " THEN LStrip(Tail(s)) ELSE s

RECURSIVE RStrip(_)
RStrip(s) ==
    IF Len(s) > 0 /\ s[Len(s)] = " " THEN RStrip(SubSeq(s, 1, Len(s) - 1)) ELSE s

\* str.strip()
Strip(s) == RStrip(LStrip(s))

\* symbol.strip().upper()
Normalize(s) == Upper(Strip(s))

\* ----------------------------------------------------------------- money
\* _CURRENCY_QUANT = Decimal("0.01"), in thousandths.
CURRENCY_QUANT == 10

\* amount.quantize(_CURRENCY_QUANT, rounding=ROUND_HALF_UP): ties go away
\* from zero.
QuantizeHalfUp(n) ==
    IF n >= 0
    THEN ((2 * n + CURRENCY_QUANT) \div (2 * CURRENCY_QUANT)) * CURRENCY_QUANT
    ELSE -(((2 * (-n) + CURRENCY_QUANT) \div (2 * CURRENCY_QUANT)) * CURRENCY_QUANT)

\* A variant of _quantize_currency that returns its argument as it is.
quantize_currency_Identity(n) == n

\* _quantize_currency on a value already known to be a Decimal.
quantize_currency(n) == QuantizeHalfUp(n)

\* ------------------------------------------------- decimal/number strings
DigitChars == <<"0", "1", "2", "3", "4", "5", "6", "7", "8", "9">>

DigitVal(c) == CHOOSE d \in 0..9 : DigitChars[d + 1] = c

\* str(n) for a natural number.
RECURSIVE NatStr(_)
NatStr(n) ==
    IF n < 10 THEN <<DigitChars[n + 1]>>
    ELSE Append(NatStr(n \div 10), DigitChars[(n % 10) + 1])

\* int(s) for a string of digits.
RECURSIVE StrNat(_)
StrNat(s) ==
    IF Len(s) = 0 THEN 0
    ELSE 10 * StrNat(SubSeq(s, 1, Len(s) - 1)) + DigitVal(s[Len(s)])

\* Position of the first occurrence of character c in s (0 when absent).
IndexOf(s, c) ==
    IF \E i \in 1..Len(s) : s[i] = c
    THEN CHOOSE i \in 1..Len(s) : s[i] = c /\ \A j \in 1..(i - 1) : s[j] # c
    ELSE 0

\* str(Decimal): sign, integer digits, ".", fraction digits. A quantized value
\* has exponent -2 and prints two fraction digits; a value with a non-zero
\* third digit prints three.
DecimalStr(n) ==
    LET a == IF n < 0 THEN -n ELSE n
        ip == a \div 1000
        fr == a % 1000
        sign == IF n < 0 THEN <<"-">> ELSE <<>>
        two == <<DigitChars[(fr \div 100) + 1], DigitChars[((fr \div 10) % 10) + 1]>>
        frac == IF fr % 10 = 0 THEN two ELSE Append(two, DigitChars[(fr % 10) + 1])
    IN  sign \o NatStr(ip) \o <<".">> \o frac

\* Decimal(s) for a string written by str(Decimal).
DecimalParse(s) ==
    LET neg == Len(s) > 0 /\ s[1] = "-"
        body == IF neg THEN Tail(s) ELSE s
        dot == IndexOf(body, ".")
        ip == StrNat(SubSeq(body, 1, dot - 1))
        fs == SubSeq(body, dot + 1, Len(body))
        fr == IF Len(fs) = 2 THEN 10 * StrNat(fs) ELSE StrNat(fs)
        a == ip * 1000 + fr
    IN  IF neg THEN -a ELSE a

\* datetime.isoformat() of a UTC-aware timestamp; a timestamp is the tick of
\* the wall clock at which it was read.
UtcSuffix == <<"+", "0", "0", ":", "0", "0">>

IsoFormat(ts) == NatStr(ts) \o UtcSuffix

\* datetime.fromisoformat(s)
FromIsoFormat(s) == StrNat(SubSeq(s, 1, Len(s) - Len(UtcSuffix)))

\* ---------------------------------------------------------- price lookup
\* The static table of get_share_price.
prices == [s \in {AAPL, TSLA, GOOGL} |->
             IF s = AAPL THEN 150000 ELSE IF s = TSLA THEN 700000 ELSE 2700000]

\* The outcome of one price lookup: an exception or a returned value.
Raises == [raises |-> TRUE, ret |-> NotADecimal]
Returns(v) == [raises |-> FALSE, ret |-> v]

\* get_share_price(symbol)
get_share_price(symbol) ==
    IF symbol.kind # "str" \/ Len(symbol.v) = 0 THEN Raises
    ELSE LET s == Normalize(symbol.v)
         IN  IF s \notin DOMAIN prices THEN Raises
             ELSE Returns(Dec(quantize_currency(prices[s])))

\* price_lookup argument: None selects get_share_price, otherwise an injected
\* callable, modelled by the outcome it produces for every symbol.
DefaultLookup == [kind |-> "default", outcome |-> Raises]
Injected(o) == [kind |-> "injected", outcome |-> o]

\* A variant of that choice which always takes get_share_price.
PriceFn_IgnoresInjected(lookup, symbol_norm) == get_share_price(StrV(symbol_norm))

\* price_fn(symbol_norm)
PriceFn(lookup, symbol_norm) ==
    IF lookup.kind = "default" THEN get_share_price(StrV(symbol_norm))
    ELSE lookup.outcome

\* ------------------------------------------------------------ Transaction
\* A variant of NewTransaction that records the balance without the amount of
\* the transaction itself.
NewTransaction_BalanceBefore(id, ttype, amount, timestamp, symbol, quantity, price_per_share, note, cashNow, holdingsNow) ==
    [id |-> id,
     type |-> ttype,
     amount |-> quantize_currency(amount),
     symbol |-> symbol,
     quantity |-> quantity,
     price_per_share |-> price_per_share,
     total |-> quantize_currency(amount),
     timestamp |-> timestamp,
     note |-> note,
     resulting_cash_balance |-> quantize_currency(cashNow - amount),
     resulting_holdings_snapshot |->
         IF DOMAIN holdingsNow # {} THEN Some(holdingsNow) ELSE None]

\* The Transaction built by _record_transaction from its arguments and the
\* account's cash and holdings at the time of the call.
NewTransaction(id, ttype, amount, timestamp, symbol, quantity, price_per_share, note, cashNow, holdingsNow) ==
    LET amount_q == quantize_currency(amount)
        price_q == IF IsNone(price_per_share) THEN None
                   ELSE Some(quantize_currency(Val(price_per_share)))
        total == IF ~IsNone(price_q) /\ ~IsNone(quantity)
                 THEN quantize_currency(Val(price_q) * Val(quantity))
                 ELSE amount_q
    IN  [id |-> id,
         type |-> ttype,
         amount |-> amount_q,
         symbol |-> symbol,
         quantity |-> quantity,
         price_per_share |-> price_q,
         total |-> total,
         timestamp |-> timestamp,
         note |-> note,
         resulting_cash_balance |-> quantize_currency(cashNow),
         resulting_holdings_snapshot |->
             IF DOMAIN holdingsNow # {} THEN Some(holdingsNow) ELSE None]

\* uuid.uuid4().hex: an identifier no earlier entry of the ledger has.
NewId(ldg) == Len(ldg) + 1

\* A variant of _record_transaction that puts the new entry in front.
record_transaction_Prepend(ldg, ttype, amount, timestamp, symbol, quantity, price_per_share, note, cashNow, holdingsNow) ==
    <<NewTransaction(NewId(ldg), ttype, amount, timestamp, symbol, quantity,
                     price_per_share, note, cashNow, holdingsNow)>> \o ldg

\* Account._record_transaction: the ledger after the append.
record_transaction(ldg, ttype, amount, timestamp, symbol, quantity, price_per_share, note, cashNow, holdingsNow) ==
    Append(ldg, NewTransaction(NewId(ldg), ttype, amount, timestamp, symbol,
                               quantity, price_per_share, note, cashNow,
                               holdingsNow))

\* Transaction.to_dict
TransactionToDict(tx) ==
    [id |-> tx.id,
     type |-> tx.type,
     amount |-> DecimalStr(tx.amount),
     symbol |-> tx.symbol,
     quantity |-> tx.quantity,
     price_per_share |-> IF IsNone(tx.price_per_share) THEN None
                         ELSE Some(DecimalStr(Val(tx.price_per_share))),
     total |-> DecimalStr(tx.total),
     timestamp |-> IsoFormat(tx.timestamp),
     note |-> tx.note,
     resulting_cash_balance |-> DecimalStr(tx.resulting_cash_balance),
     resulting_holdings_snapshot |-> tx.resulting_holdings_snapshot]

\* Transaction.from_dict
TransactionFromDict(data) ==
    [id |-> data.id,
     type |-> data.type,
     amount |-> DecimalParse(data.amount),
     symbol |-> data.symbol,
     quantity |-> data.quantity,
     price_per_share |-> IF IsNone(data.price_per_share) THEN None
                         ELSE Some(DecimalParse(Val(data.price_per_share))),
     total |-> DecimalParse(data.total),
     timestamp |-> FromIsoFormat(data.timestamp),
     note |-> data.note,
     resulting_cash_balance |-> DecimalParse(data.resulting_cash_balance),
     resulting_holdings_snapshot |-> data.resulting_holdings_snapshot]

\* ---------------------------------------------------------------- Account
EmptyHoldings == [s \in {} |-> 0]

\* self._holdings.get(symbol, 0)
HoldingsGet(h, s) == IF s \in DOMAIN h THEN h[s] ELSE 0

\* self._holdings[symbol] = q
HoldingsSet(h, s, q) ==
    [x \in (DOMAIN h) \cup {s} |-> IF x = s THEN q ELSE h[x]]

\* self._holdings.pop(symbol, None)
HoldingsPop(h, s) == [x \in (DOMAIN h) \ {s} |-> h[x]]

\* Account.__init__ with a non-empty user_id and a Decimal initial_deposit:
\* the fields of the constructed account.
AccountInit(uid, deposit0, cur, timestamp) ==
    LET init_q == quantize_currency(deposit0)
        funded == init_q # 0 /\ init_q > 0
        cash0 == IF funded THEN quantize_currency(init_q) ELSE quantize_currency(0)
    IN  [user_id |-> uid,
         currency |-> cur,
         cash |-> cash0,
         holdings |-> EmptyHoldings,
         ledger |-> IF funded
                    THEN record_transaction(<<>>, "deposit", init_q, timestamp,
                                            None, None, None,
                                            Some("initial_deposit"), cash0,
                                            EmptyHoldings)
                    ELSE <<>>,
         initial_deposit |-> init_q,
         total_deposits |-> IF funded THEN quantize_currency(init_q) ELSE 0,
         total_withdrawals |-> 0]

\* Account(user_id, initial_deposit, currency, timestamp) on typed arguments:
\* an empty or non-string user_id raises, and so does _quantize_currency on
\* an initial_deposit that is not a Decimal; otherwise the account is built.
AccountConstruct(uid, deposit0, cur, timestamp) ==
    IF uid.kind # "str" \/ Len(uid.v) = 0
    THEN [raises |-> TRUE, acct |-> None]
    ELSE IF deposit0.kind # "Decimal"
    THEN [raises |-> TRUE, acct |-> None]
    ELSE [raises |-> FALSE,
          acct |-> Some(AccountInit(uid.v, deposit0.v, cur, timestamp))]

\* `tx.type not in types` for a list of types.
InList(x, list) == \E k \in 1..Len(list) : list[k] = x

\* A variant of the loop of list_transactions that treats end_time as an
\* exclusive bound.
RECURSIVE ListLoop_ExclusiveEnd(_, _, _, _, _, _)
ListLoop_ExclusiveEnd(ldg, i, result, start_time, end_time, types) ==
    IF i > Len(ldg) THEN result
    ELSE LET tx == ldg[i]
             skip == \/ ~IsNone(start_time) /\ tx.timestamp < Val(start_time)
                     \/ ~IsNone(end_time) /\ tx.timestamp >= Val(end_time)
                     \/ ~IsNone(types) /\ ~InList(tx.type, Val(types))
         IN  ListLoop_ExclusiveEnd(ldg, i + 1,
                                   IF skip THEN result ELSE Append(result, tx),
                                   start_time, end_time, types)

ListTransactions_ExclusiveEnd(ldg, start_time, end_time, types) ==
    ListLoop_ExclusiveEnd(ldg, 1, <<>>, start_time, end_time, types)

\* The loop of list_transactions from entry i on: an entry is skipped when it
\* is before start_time, after end_time, or of a type not listed; every other
\* entry is appended to result.
RECURSIVE ListLoop(_, _, _, _, _, _)
ListLoop(ldg, i, result, start_time, end_time, types) ==
    IF i > Len(ldg) THEN result
    ELSE LET tx == ldg[i]
             skip == \/ ~IsNone(start_time) /\ tx.timestamp < Val(start_time)
                     \/ ~IsNone(end_time) /\ tx.timestamp > Val(end_time)
                     \/ ~IsNone(types) /\ ~InList(tx.type, Val(types))
         IN  ListLoop(ldg, i + 1, IF skip THEN result ELSE Append(result, tx),
                      start_time, end_time, types)

\* Account.list_transactions (the caller holds the lock)
ListTransactions(ldg, start_time, end_time, types) ==
    ListLoop(ldg, 1, <<>>, start_time, end_time, types)

\* A variant of that loop that goes on after a match, so that the entry it
\* ends with is the newest one whatever the id asked for.
RECURSIVE FindLoop_KeepsLatest(_, _, _)
FindLoop_KeepsLatest(ldg, i, transaction_id) ==
    IF i > Len(ldg) THEN None
    ELSE IF ldg[i].id = transaction_id \/ i = Len(ldg) THEN Some(ldg[Len(ldg)])
    ELSE FindLoop_KeepsLatest(ldg, i + 1, transaction_id)

\* The loop of get_transaction from entry i on: the first entry whose id is
\* transaction_id, or None when the loop runs out.
RECURSIVE FindLoop(_, _, _)
FindLoop(ldg, i, transaction_id) ==
    IF i > Len(ldg) THEN None
    ELSE IF ldg[i].id = transaction_id THEN Some(ldg[i])
    ELSE FindLoop(ldg, i + 1, transaction_id)

\* Account.to_dict (the caller holds the lock)
AccountToDict(a) ==
    [user_id |-> a.user_id,
     currency |-> a.currency,
     cash |-> DecimalStr(a.cash),
     holdings |-> a.holdings,
     initial_deposit |-> DecimalStr(a.initial_deposit),
     total_deposits |-> DecimalStr(a.total_deposits),
     total_withdrawals |-> DecimalStr(a.total_withdrawals),
     ledger |-> [i \in 1..Len(a.ledger) |-> TransactionToDict(a.ledger[i])]]

\* A variant of from_dict that hands the initial deposit to the constructor
\* and keeps the entry the constructor records in front of the rebuilt ledger.
AccountFromDict_KeepsInitialEntry(data, timestamp) ==
    LET acct == AccountInit(data.user_id, DecimalParse(data.initial_deposit),
                            data.currency, timestamp)
    IN  [acct EXCEPT
           !.cash = quantize_currency(DecimalParse(data.cash)),
           !.holdings = data.holdings,
           !.total_deposits = quantize_currency(DecimalParse(data.total_deposits)),
           !.total_withdrawals = quantize_currency(DecimalParse(data.total_withdrawals)),
           !.ledger = acct.ledger
                      \o [i \in 1..Len(data.ledger) |-> TransactionFromDict(data.ledger[i])]]

\* Account.from_dict: a fresh account built with a zero initial deposit, its
\* fields then overwritten from the record.
AccountFromDict(data, timestamp) ==
    LET acct == AccountInit(data.user_id, 0, data.currency, timestamp)
    IN  [acct EXCEPT
           !.cash = quantize_currency(DecimalParse(data.cash)),
           !.holdings = data.holdings,
           !.initial_deposit = quantize_currency(DecimalParse(data.initial_deposit)),
           !.total_deposits = quantize_currency(DecimalParse(data.total_deposits)),
           !.total_withdrawals = quantize_currency(DecimalParse(data.total_withdrawals)),
           !.ledger = [i \in 1..Len(data.ledger) |-> TransactionFromDict(data.ledger[i])]]

\* ------------------------------------------------------------ the inputs
\* Arguments the callers pass. Each set holds the values that separate the
\* branches of the code: a non-Decimal, a non-positive amount, amounts with
\* three fraction digits (one below half a cent, one at it), whole amounts.
Amounts == {NotADecimal, Dec(0), Dec(4), Dec(5), Dec(10), Dec(150000)}

Symbols == {NotAStr, StrV(<<>>), StrV(<<" ">>), StrV(<<" ", "a", "a", "p", "l">>),
            StrV(AAPL)}

Quantities == {NotAnInt, IntV(0), IntV(1), IntV(2)}

Lookups == {DefaultLookup,
            Injected(Raises),
            Injected(Returns(NotADecimal)),
            Injected(Returns(Dec(-1000))),
            Injected(Returns(Dec(5)))}

\* Arguments of direct calls of get_share_price: a non-string, the empty
\* string, a blank, the supported symbols in several spellings and an
\* unsupported one.
PricedSymbols == {NotAStr, StrV(<<>>), StrV(<<" ">>),
                 StrV(<<" ", "a", "a", "p", "l">>), StrV(TSLA),
                 StrV(<<"g", "o", "o", "g", "l", " ">>), StrV(<<"M">>)}

\* initial_deposit values the constructor accepts.
InitialDeposits == {0, 5, 150000, -1000}

\* Arguments of the constructor calls made while the account is in use.
ConstructorUserIds == {NotAStr, StrV(<<>>), StrV(<<"u">>)}

ConstructorDeposits == {NotADecimal} \cup {Dec(d) : d \in InitialDeposits}

\* timestamp argument of the constructor: the wall clock at construction
\* (tick 0), or a later time supplied by the caller.
InitialTimestamps == {0, 2}

\* Filters passed to list_transactions; None is an omitted filter.
StartTimes == {None, Some(1)}

EndTimes == {None, Some(1)}

TypeFilters == {None, Some(<<"deposit">>), Some(<<"buy", "withdraw">>)}

\* transaction_id arguments of get_transaction: the ids of the first entries
\* of a ledger, and one that no ledger of the model holds when it is asked for.
TransactionIds == {1, 2, 3}

UserIds == {"user1"}

Currencies == {"USD"}

\* ------------------------------------------------------------- the state
VARIABLES
    user_id,            \* Account.user_id
    currency,           \* Account.currency
    cash,               \* Account._cash
    holdings,           \* Account._holdings
    ledger,             \* Account._ledger
    initial_deposit,    \* Account._initial_deposit
    total_deposits,     \* Account._total_deposits
    total_withdrawals,  \* Account._total_withdrawals
    lock,               \* Account._lock: the thread holding it, or NoThread
    clock,              \* ticks of the wall clock; one tick per public call
    pc,                 \* per thread: where it is in its current call
    loc,                \* per thread: arguments and locals of its current call
    out,                \* per thread: how its last call ended
    seen,               \* per thread: the account states that existed during its call
    race                \* whether the two calls in flight compete for one balance

acct_vars == <<user_id, currency, cash, holdings, ledger, initial_deposit,
               total_deposits, total_withdrawals>>

vars == <<user_id, currency, cash, holdings, ledger, initial_deposit,
          total_deposits, total_withdrawals, lock, clock, pc, loc, out, seen, race>>

\* The account's fields as one record.
Acct ==
    [user_id |-> user_id, currency |-> currency, cash |-> cash,
     holdings |-> holdings, ledger |-> ledger,
     initial_deposit |-> initial_deposit, total_deposits |-> total_deposits,
     total_withdrawals |-> total_withdrawals]

\* A call frame before any argument is bound.
Blank ==
    [op |-> "none", amount |-> 0, symbol_norm |-> <<>>, quantity |-> 0,
     lookup |-> DefaultLookup, timestamp |-> 0, price_q |-> 0, total |-> 0,
     held |-> 0, entry |-> "none", cashv |-> 0, equity |-> 0, td |-> 0,
     lookups |-> 0, wrote |-> FALSE, data |-> None, orig |-> None,
     arg |-> NotADecimal, transaction_id |-> 0]

NoResult == [status |-> "none", val |-> 0, tx |-> None, acct |-> None, txs |-> <<>>, dict |-> None]
Failed(err) == [status |-> err, val |-> 0, tx |-> None, acct |-> None, txs |-> <<>>, dict |-> None]
ReturnsValue(v) == [status |-> "ok", val |-> v, tx |-> None, acct |-> None, txs |-> <<>>, dict |-> None]
ReturnsTx(tx) == [status |-> "ok", val |-> 0, tx |-> Some(tx), acct |-> None, txs |-> <<>>, dict |-> None]
ReturnsAcct(a) == [status |-> "ok", val |-> 0, tx |-> None, acct |-> Some(a), txs |-> <<>>, dict |-> None]
ReturnsList(l) == [status |-> "ok", val |-> 0, tx |-> None, acct |-> None, txs |-> l, dict |-> None]
ReturnsDict(h) == [status |-> "ok", val |-> 0, tx |-> None, acct |-> None, txs |-> <<>>, dict |-> Some(h)]

MutatingOps == {"deposit", "withdraw", "buy", "sell"}
ValuationOps == {"get_cash_balance", "get_portfolio_value", "get_total_equity",
                 "get_profit_loss_from_initial",
                 "get_profit_loss_from_net_deposits"}

InCall(t) == pc[t] \notin {"idle", "done"}

\* ------------------------------------------------- observation of the run
\* The balances of the account in the state a step leads to.
SnapshotNext ==
    [cash |-> cash', holdings |-> holdings', total_deposits |-> total_deposits',
     total_withdrawals |-> total_withdrawals']

\* What a call that waits for the lock needs from the balance it will check.
NeedsCash(l) == IF l.op = "withdraw" THEN l.amount ELSE l.total

\* Two calls are in flight, neither has entered the lock yet, and the balance
\* each will check is enough for either alone but not for both.
FundsRaceNext ==
    \E t, u \in Threads :
        /\ t # u
        /\ pc'[t] = "acquire" /\ pc'[u] = "acquire"
        /\ loc'[t].op \in {"withdraw", "buy"} /\ loc'[u].op \in {"withdraw", "buy"}
        /\ NeedsCash(loc'[t]) <= cash' /\ NeedsCash(loc'[u]) <= cash'
        /\ NeedsCash(loc'[t]) + NeedsCash(loc'[u]) > cash'

SharesRaceNext ==
    \E t, u \in Threads :
        /\ t # u
        /\ pc'[t] = "acquire" /\ pc'[u] = "acquire"
        /\ loc'[t].op = "sell" /\ loc'[u].op = "sell"
        /\ loc'[t].symbol_norm = loc'[u].symbol_norm
        /\ LET held == HoldingsGet(holdings', loc'[t].symbol_norm)
           IN  /\ loc'[t].quantity <= held /\ loc'[u].quantity <= held
               /\ loc'[t].quantity + loc'[u].quantity > held

\* Bookkeeping of a step taken by thread t (starting: the step is the start of
\* a new call). It records history only; no step of the account reads it.
Observe(t, starting) ==
    /\ seen' = [u \in Threads |->
                  IF u = t /\ starting
                  THEN IF loc'[u].op \in ValuationOps THEN {SnapshotNext} ELSE {}
                  ELSE IF InCall(u) /\ loc[u].op \in ValuationOps
                       THEN seen[u] \cup {SnapshotNext}
                       ELSE seen[u]]
    /\ race' = IF FundsRaceNext THEN "funds"
               ELSE IF SharesRaceNext THEN "shares"
               ELSE IF starting THEN "none"
               ELSE race

\* ------------------------------------------------------------------ Init
\* The state after Account(user_id, initial_deposit, currency) returned.
Init ==
    \E uid \in UserIds, d \in InitialDeposits, cur \in Currencies,
       ts \in InitialTimestamps :
        LET a == AccountInit(uid, d, cur, ts)
        IN  /\ user_id = a.user_id
            /\ currency = a.currency
            /\ cash = a.cash
            /\ holdings = a.holdings
            /\ ledger = a.ledger
            /\ initial_deposit = a.initial_deposit
            /\ total_deposits = a.total_deposits
            /\ total_withdrawals = a.total_withdrawals
            /\ lock = NoThread
            /\ clock = 0
            /\ pc = [t \in Threads |-> "idle"]
            /\ loc = [t \in Threads |-> Blank]
            /\ out = [t \in Threads |-> NoResult]
            /\ seen = [t \in Threads |-> {}]
            /\ race = "none"

\* ------------------------------------------------------------ the lock
\* threading.Lock.acquire succeeds only while nobody holds the lock.
CanAcquire(t) == lock = NoThread

\* `with self._lock:` left by a return.
ReleaseOnReturn(t) == lock' = NoThread

\* A variant of the error exit that leaves the lock held.
ReleaseOnError_KeepsLock(t) == lock' = lock

\* `with self._lock:` left by an exception.
ReleaseOnError(t) == lock' = NoThread

\* A caller may start a call when it is in none and the call budget allows.
CanCall(t) == pc[t] \in {"idle", "done"} /\ clock < MaxCalls

\* self._now(): the wall clock read at the start of the call.
Now == clock + 1

\* Start of a call: the frame f, ending at once with error err when the
\* validation done before the lock fails, else waiting for the lock.
StartCall(t, f, err) ==
    /\ clock' = clock + 1
    /\ loc' = [loc EXCEPT ![t] = f]
    /\ IF err = "none"
       THEN /\ pc' = [pc EXCEPT ![t] = "acquire"]
            /\ out' = [out EXCEPT ![t] = NoResult]
       ELSE /\ pc' = [pc EXCEPT ![t] = "done"]
            /\ out' = [out EXCEPT ![t] = Failed(err)]
    /\ UNCHANGED <<acct_vars, lock>>
    /\ Observe(t, TRUE)

\* with self._lock: the caller enters the critical section of its call.
Acquire(t) ==
    /\ pc[t] = "acquire"
    /\ CanAcquire(t)
    /\ lock' = t
    /\ pc' = [pc EXCEPT ![t] = loc[t].entry]
    /\ UNCHANGED <<acct_vars, clock, loc, out>>
    /\ Observe(t, FALSE)

\* A call ends with an exception raised inside the critical section.
FailUnderLock(t, f, err) ==
    /\ ReleaseOnError(t)
    /\ pc' = [pc EXCEPT ![t] = "done"]
    /\ loc' = [loc EXCEPT ![t] = f]
    /\ out' = [out EXCEPT ![t] = Failed(err)]
    /\ UNCHANGED <<acct_vars, clock>>
    /\ Observe(t, FALSE)

\* A variant of _validate_amount that lets a zero amount pass.
validate_amount_AllowsZero(amount) ==
    IF amount.kind # "Decimal" THEN "InvalidTransaction"
    ELSE IF amount.v < 0 THEN "InvalidTransaction"
    ELSE "none"

\* Account._validate_amount: the error it raises, or "none".
validate_amount(amount) ==
    IF amount.kind # "Decimal" THEN "InvalidTransaction"
    ELSE IF amount.v <= 0 THEN "InvalidTransaction"
    ELSE "none"

\* A variant of _validate_quantity that lets a zero quantity pass.
validate_quantity_AllowsZero(quantity) ==
    IF quantity.kind # "int" THEN "InvalidTransaction"
    ELSE IF quantity.v < 0 THEN "InvalidTransaction"
    ELSE "none"

\* Account._validate_quantity: the error it raises, or "none".
validate_quantity(quantity) ==
    IF quantity.kind # "int" THEN "InvalidTransaction"
    ELSE IF quantity.v <= 0 THEN "InvalidTransaction"
    ELSE "none"

\* `if not symbol or not isinstance(symbol, str)` of buy and sell.
validate_symbol(symbol) ==
    IF symbol.kind # "str" \/ Len(symbol.v) = 0 THEN "InvalidTransaction"
    ELSE "none"

\* --------------------------------------------------------------- deposit
\* deposit(amount): timestamp, validation, then the lock.
deposit(t) ==
    /\ CanCall(t)
    /\ \E amount \in Amounts :
         LET err == validate_amount(amount)
             f == [Blank EXCEPT !.op = "deposit", !.timestamp = Now,
                                !.entry = "deposit_body", !.arg = amount]
         IN  StartCall(t, IF err = "none" THEN [f EXCEPT !.amount = amount.v] ELSE f, err)

\* A variant of that call which hands the unit price of a trade to
\* _record_transaction as its amount.
Recorded_UnitPriceAsAmount(l, ldg, cashNow, holdingsNow) ==
    LET trade == l.op \in {"buy", "sell"}
    IN  record_transaction(ldg, l.op,
                           IF trade THEN l.price_q ELSE l.amount,
                           l.timestamp,
                           IF trade THEN Some(l.symbol_norm) ELSE None,
                           IF trade THEN Some(l.quantity) ELSE None,
                           IF trade THEN Some(l.price_q) ELSE None,
                           None, cashNow, holdingsNow)

\* The Transaction a mutating call records: _record_transaction with the
\* call's arguments, on the cash and holdings given.
Recorded(l, ldg, cashNow, holdingsNow) ==
    LET trade == l.op \in {"buy", "sell"}
    IN  record_transaction(ldg, l.op,
                           IF trade THEN l.total ELSE l.amount,
                           l.timestamp,
                           IF trade THEN Some(l.symbol_norm) ELSE None,
                           IF trade THEN Some(l.quantity) ELSE None,
                           IF trade THEN Some(l.price_q) ELSE None,
                           None, cashNow, holdingsNow)

\* The end of a mutating call: the entry is appended to the ledger, the lock
\* is released and the Transaction is returned.
Commit(t, cashNow, holdingsNow) ==
    LET ldg == Recorded(loc[t], ledger, cashNow, holdingsNow)
    IN  /\ ledger' = ldg
        /\ out' = [out EXCEPT ![t] = ReturnsTx(ldg[Len(ldg)])]
        /\ ReleaseOnReturn(t)
        /\ pc' = [pc EXCEPT ![t] = "done"]
        /\ loc' = [loc EXCEPT ![t].wrote = TRUE]

\* Under the lock: cash and total_deposits grow by amount, each quantized,
\* and the deposit is recorded.
deposit_body(t) ==
    /\ pc[t] = "deposit_body"
    /\ cash' = quantize_currency(cash + loc[t].amount)
    /\ total_deposits' = quantize_currency(total_deposits + loc[t].amount)
    /\ Commit(t, cash', holdings)
    /\ UNCHANGED <<user_id, currency, holdings, initial_deposit,
                   total_withdrawals, clock>>
    /\ Observe(t, FALSE)

\* -------------------------------------------------------------- withdraw
\* withdraw(amount): timestamp, validation, then the lock.
withdraw(t) ==
    /\ CanCall(t)
    /\ \E amount \in Amounts :
         LET err == validate_amount(amount)
             f == [Blank EXCEPT !.op = "withdraw", !.timestamp = Now,
                                !.entry = "withdraw_check", !.arg = amount]
         IN  StartCall(t, IF err = "none" THEN [f EXCEPT !.amount = amount.v] ELSE f, err)

\* A check under the lock has passed: the call goes on to its assignments.
Proceed(t, f, next) ==
    /\ pc' = [pc EXCEPT ![t] = next]
    /\ loc' = [loc EXCEPT ![t] = f]
    /\ UNCHANGED <<acct_vars, lock, clock, out>>
    /\ Observe(t, FALSE)

\* A variant of the withdraw check that deducts before it checks.
withdraw_check_DeductFirst(t) ==
    /\ pc[t] = "withdraw_check"
    /\ IF cash < loc[t].amount
       THEN /\ cash' = quantize_currency(cash - loc[t].amount)
            /\ ReleaseOnError(t)
            /\ pc' = [pc EXCEPT ![t] = "done"]
            /\ out' = [out EXCEPT ![t] = Failed("InsufficientFunds")]
            /\ UNCHANGED <<user_id, currency, holdings, ledger, initial_deposit,
                           total_deposits, total_withdrawals, clock, loc>>
            /\ Observe(t, FALSE)
       ELSE Proceed(t, loc[t], "withdraw_body")

\* if self._cash < amount: raise InsufficientFundsError
withdraw_check(t) ==
    /\ pc[t] = "withdraw_check"
    /\ IF cash < loc[t].amount
       THEN FailUnderLock(t, loc[t], "InsufficientFunds")
       ELSE Proceed(t, loc[t], "withdraw_body")

\* A variant of the withdrawal that nets the amount off total_deposits
\* instead of adding it to total_withdrawals.
withdraw_body_NetsDeposits(t) ==
    /\ pc[t] = "withdraw_body"
    /\ cash' = quantize_currency(cash - loc[t].amount)
    /\ total_deposits' = quantize_currency(total_deposits - loc[t].amount)
    /\ Commit(t, cash', holdings)
    /\ UNCHANGED <<user_id, currency, holdings, initial_deposit,
                   total_withdrawals, clock>>
    /\ Observe(t, FALSE)

\* cash shrinks and total_withdrawals grows by amount, each quantized, and the
\* withdrawal is recorded.
withdraw_body(t) ==
    /\ pc[t] = "withdraw_body"
    /\ cash' = quantize_currency(cash - loc[t].amount)
    /\ total_withdrawals' = quantize_currency(total_withdrawals + loc[t].amount)
    /\ Commit(t, cash', holdings)
    /\ UNCHANGED <<user_id, currency, holdings, initial_deposit,
                   total_deposits, clock>>
    /\ Observe(t, FALSE)

\* ------------------------------------------------------------------- buy
\* buy(symbol, quantity, price_lookup): timestamp, validation, the price
\* lookup and the cost, all before the lock.
buy(t) ==
    /\ CanCall(t)
    /\ \E symbol \in Symbols, quantity \in Quantities, lookup \in Lookups :
         LET f == [Blank EXCEPT !.op = "buy", !.timestamp = Now,
                                !.entry = "buy_check",
                                !.data = Some([symbol |-> symbol,
                                               quantity |-> quantity])]
         IN  IF validate_symbol(symbol) # "none"
             THEN StartCall(t, f, "InvalidTransaction")
             ELSE IF validate_quantity(quantity) # "none"
             THEN StartCall(t, f, "InvalidTransaction")
             ELSE LET symbol_norm == Normalize(symbol.v)
                      price == PriceFn(lookup, symbol_norm)
                      g == [f EXCEPT !.symbol_norm = symbol_norm,
                                     !.quantity = quantity.v,
                                     !.lookup = lookup, !.lookups = 1]
                  IN  IF price.raises \/ price.ret.kind # "Decimal"
                      THEN StartCall(t, g, "InvalidTransaction")
                      ELSE LET price_q == quantize_currency(price.ret.v)
                               total_cost == quantize_currency(price_q * quantity.v)
                           IN  StartCall(t, [g EXCEPT !.price_q = price_q,
                                                      !.total = total_cost],
                                         "none")

\* A variant of the funds check of buy that also rejects a purchase costing
\* exactly the cash at hand.
buy_check_RejectsExactFunds(t) ==
    /\ pc[t] = "buy_check"
    /\ IF cash <= loc[t].total
       THEN FailUnderLock(t, loc[t], "InsufficientFunds")
       ELSE Proceed(t, loc[t], "buy_body")

\* if self._cash < total_cost: raise InsufficientFundsError
buy_check(t) ==
    /\ pc[t] = "buy_check"
    /\ IF cash < loc[t].total
       THEN FailUnderLock(t, loc[t], "InsufficientFunds")
       ELSE Proceed(t, loc[t], "buy_body")

\* A variant of the purchase that adds the shares without taking the cost
\* off the cash.
buy_body_KeepsCash(t) ==
    /\ pc[t] = "buy_body"
    /\ cash' = quantize_currency(cash)
    /\ holdings' = HoldingsSet(holdings, loc[t].symbol_norm,
                               HoldingsGet(holdings, loc[t].symbol_norm)
                                   + loc[t].quantity)
    /\ Commit(t, cash', holdings')
    /\ UNCHANGED <<user_id, currency, initial_deposit, total_deposits,
                   total_withdrawals, clock>>
    /\ Observe(t, FALSE)

\* cash shrinks by total_cost, the holding grows by quantity, and the
\* purchase is recorded.
buy_body(t) ==
    /\ pc[t] = "buy_body"
    /\ cash' = quantize_currency(cash - loc[t].total)
    /\ holdings' = HoldingsSet(holdings, loc[t].symbol_norm,
                               HoldingsGet(holdings, loc[t].symbol_norm)
                                   + loc[t].quantity)
    /\ Commit(t, cash', holdings')
    /\ UNCHANGED <<user_id, currency, initial_deposit, total_deposits,
                   total_withdrawals, clock>>
    /\ Observe(t, FALSE)

\* ------------------------------------------------------------------ sell
\* sell(symbol, quantity, price_lookup): timestamp and validation, then the
\* lock.
sell(t) ==
    /\ CanCall(t)
    /\ \E symbol \in Symbols, quantity \in Quantities, lookup \in Lookups :
         LET f == [Blank EXCEPT !.op = "sell", !.timestamp = Now,
                                !.entry = "sell_check",
                                !.data = Some([symbol |-> symbol,
                                               quantity |-> quantity])]
         IN  IF validate_symbol(symbol) # "none"
             THEN StartCall(t, f, "InvalidTransaction")
             ELSE IF validate_quantity(quantity) # "none"
             THEN StartCall(t, f, "InvalidTransaction")
             ELSE StartCall(t, [f EXCEPT !.symbol_norm = Normalize(symbol.v),
                                         !.quantity = quantity.v,
                                         !.lookup = lookup],
                            "none")

\* A variant of the sell check that resolves the price before it counts the
\* shares.
sell_check_LookupFirst(t) ==
    /\ pc[t] = "sell_check"
    /\ LET l == loc[t]
           held == HoldingsGet(holdings, l.symbol_norm)
           price == PriceFn(l.lookup, l.symbol_norm)
       IN  IF price.raises \/ price.ret.kind # "Decimal"
           THEN FailUnderLock(t, [l EXCEPT !.held = held, !.lookups = 1],
                              "InvalidTransaction")
           ELSE IF held < l.quantity
           THEN FailUnderLock(t, [l EXCEPT !.held = held, !.lookups = 1],
                              "InsufficientShares")
           ELSE LET price_q == quantize_currency(price.ret.v)
                    total_proceeds == quantize_currency(price_q * l.quantity)
                IN  Proceed(t, [l EXCEPT !.held = held, !.lookups = 1,
                                         !.price_q = price_q,
                                         !.total = total_proceeds],
                            "sell_body")

\* A variant of the share-count check that also rejects the sale of all the
\* shares held.
sell_check_RejectsSellingAll(t) ==
    /\ pc[t] = "sell_check"
    /\ LET l == loc[t]
           held == HoldingsGet(holdings, l.symbol_norm)
           price == PriceFn(l.lookup, l.symbol_norm)
       IN  IF held <= l.quantity
           THEN FailUnderLock(t, [l EXCEPT !.held = held], "InsufficientShares")
           ELSE IF price.raises \/ price.ret.kind # "Decimal"
           THEN FailUnderLock(t, [l EXCEPT !.held = held, !.lookups = 1],
                              "InvalidTransaction")
           ELSE LET price_q == quantize_currency(price.ret.v)
                    total_proceeds == quantize_currency(price_q * l.quantity)
                IN  Proceed(t, [l EXCEPT !.held = held, !.lookups = 1,
                                         !.price_q = price_q,
                                         !.total = total_proceeds],
                            "sell_body")

\* Under the lock: the share-count check, then the price lookup and its
\* validation; nothing is assigned before both have passed.
sell_check(t) ==
    /\ pc[t] = "sell_check"
    /\ LET l == loc[t]
           held == HoldingsGet(holdings, l.symbol_norm)
           price == PriceFn(l.lookup, l.symbol_norm)
       IN  IF held < l.quantity
           THEN FailUnderLock(t, [l EXCEPT !.held = held], "InsufficientShares")
           ELSE IF price.raises \/ price.ret.kind # "Decimal"
           THEN FailUnderLock(t, [l EXCEPT !.held = held, !.lookups = 1],
                              "InvalidTransaction")
           ELSE LET price_q == quantize_currency(price.ret.v)
                    total_proceeds == quantize_currency(price_q * l.quantity)
                IN  Proceed(t, [l EXCEPT !.held = held, !.lookups = 1,
                                         !.price_q = price_q,
                                         !.total = total_proceeds],
                            "sell_body")

\* A variant of the sale that stores the remaining quantity even when it is
\* zero.
sell_body_KeepsZero(t) ==
    /\ pc[t] = "sell_body"
    /\ holdings' = HoldingsSet(holdings, loc[t].symbol_norm,
                               loc[t].held - loc[t].quantity)
    /\ cash' = quantize_currency(cash + loc[t].total)
    /\ Commit(t, cash', holdings')
    /\ UNCHANGED <<user_id, currency, initial_deposit, total_deposits,
                   total_withdrawals, clock>>
    /\ Observe(t, FALSE)

\* remaining = held - quantity is stored, or the symbol popped when it is
\* zero; cash grows by the proceeds; the sale is recorded.
sell_body(t) ==
    /\ pc[t] = "sell_body"
    /\ LET remaining == loc[t].held - loc[t].quantity
       IN  holdings' = IF remaining # 0
                       THEN HoldingsSet(holdings, loc[t].symbol_norm, remaining)
                       ELSE HoldingsPop(holdings, loc[t].symbol_norm)
    /\ cash' = quantize_currency(cash + loc[t].total)
    /\ Commit(t, cash', holdings')
    /\ UNCHANGED <<user_id, currency, initial_deposit, total_deposits,
                   total_withdrawals, clock>>
    /\ Observe(t, FALSE)

\* --------------------------------------------------------------- queries
\* A variant of that loop that adds the unrounded price * quantity products,
\* leaving all rounding to the end.
RECURSIVE SumValues_RoundsOnlyAtEnd(_, _, _)
SumValues_RoundsOnlyAtEnd(h, lookup, syms) ==
    IF syms = {} THEN 0
    ELSE LET s == CHOOSE x \in syms : TRUE
         IN  PriceFn(lookup, s).ret.v * h[s]
             + SumValues_RoundsOnlyAtEnd(h, lookup, syms \ {s})

\* The loop of get_portfolio_value over the held symbols: the sum of the
\* quantized per-symbol values.
RECURSIVE SumValues(_, _, _)
SumValues(h, lookup, syms) ==
    IF syms = {} THEN 0
    ELSE LET s == CHOOSE x \in syms : TRUE
         IN  quantize_currency(
                 quantize_currency(PriceFn(lookup, s).ret.v) * h[s])
             + SumValues(h, lookup, syms \ {s})

\* Whether some lookup of that loop raises or returns a non-Decimal.
PortfolioFails(h, lookup) ==
    \E s \in DOMAIN h :
        PriceFn(lookup, s).raises \/ PriceFn(lookup, s).ret.kind # "Decimal"

\* The value get_portfolio_value returns when no lookup fails.
PortfolioValue(h, lookup) == quantize_currency(SumValues(h, lookup, DOMAIN h))

\* The price_lookup arguments tried with each query: get_cash_balance takes
\* none, get_portfolio_value is tried with every lookup, and the queries
\* built on it with the default and one injected lookup.
QueryLookups(op) ==
    IF op = "get_cash_balance" THEN {DefaultLookup}
    ELSE IF op = "get_portfolio_value" THEN Lookups
    ELSE {DefaultLookup, Injected(Returns(Dec(5)))}

\* A valuation query is called: get_cash_balance, get_portfolio_value,
\* get_total_equity, get_profit_loss_from_initial or
\* get_profit_loss_from_net_deposits. None validates anything before the lock.
query(t) ==
    /\ CanCall(t)
    /\ \E op \in ValuationOps, lookup \in Lookups :
         /\ lookup \in QueryLookups(op)
         /\ StartCall(t, [Blank EXCEPT !.op = op, !.lookup = lookup,
                                       !.entry = IF op = "get_portfolio_value"
                                                 THEN "read_portfolio"
                                                 ELSE "read_cash"],
                      "none")

\* get_cash_balance: under the lock, return _quantize_currency(self._cash).
read_cash(t) ==
    /\ pc[t] = "read_cash"
    /\ LET v == quantize_currency(cash)
       IN  IF loc[t].op = "get_cash_balance"
           THEN /\ pc' = [pc EXCEPT ![t] = "done"]
                /\ out' = [out EXCEPT ![t] = ReturnsValue(v)]
                /\ loc' = [loc EXCEPT ![t].cashv = v]
           ELSE /\ pc' = [pc EXCEPT ![t] = "acquire"]
                /\ out' = out
                /\ loc' = [loc EXCEPT ![t].cashv = v, ![t].entry = "read_portfolio"]
    /\ ReleaseOnReturn(t)
    /\ UNCHANGED <<acct_vars, clock>>
    /\ Observe(t, FALSE)

\* get_portfolio_value: under the lock, value every held symbol; then, in
\* get_total_equity, add the cash read before.
read_portfolio(t) ==
    /\ pc[t] = "read_portfolio"
    /\ LET l == loc[t]
           n == Cardinality(DOMAIN holdings)
       IN  IF PortfolioFails(holdings, l.lookup)
           THEN FailUnderLock(t, [l EXCEPT !.lookups = n], "InvalidTransaction")
           ELSE LET pv == PortfolioValue(holdings, l.lookup)
                    equity == quantize_currency(l.cashv + pv)
                IN  /\ ReleaseOnReturn(t)
                    /\ UNCHANGED <<acct_vars, clock>>
                    /\ CASE l.op = "get_portfolio_value" ->
                              /\ pc' = [pc EXCEPT ![t] = "done"]
                              /\ out' = [out EXCEPT ![t] = ReturnsValue(pv)]
                              /\ loc' = [loc EXCEPT ![t].lookups = n]
                         [] l.op = "get_total_equity" ->
                              /\ pc' = [pc EXCEPT ![t] = "done"]
                              /\ out' = [out EXCEPT ![t] = ReturnsValue(equity)]
                              /\ loc' = [loc EXCEPT ![t].lookups = n,
                                                    ![t].equity = equity]
                         [] l.op = "get_profit_loss_from_initial" ->
                              /\ pc' = [pc EXCEPT ![t] = "pnl_initial"]
                              /\ out' = out
                              /\ loc' = [loc EXCEPT ![t].lookups = n,
                                                    ![t].equity = equity]
                         [] OTHER ->
                              /\ pc' = [pc EXCEPT ![t] = "pnl_deposits"]
                              /\ out' = out
                              /\ loc' = [loc EXCEPT ![t].lookups = n,
                                                    ![t].equity = equity]
                    /\ Observe(t, FALSE)

\* A variant of get_profit_loss_from_initial that takes total_deposits for
\* its baseline.
pnl_initial_UsesDeposits(t) ==
    /\ pc[t] = "pnl_initial"
    /\ out' = [out EXCEPT ![t] =
                 ReturnsValue(quantize_currency(
                     loc[t].equity - quantize_currency(total_deposits)))]
    /\ pc' = [pc EXCEPT ![t] = "done"]
    /\ UNCHANGED <<acct_vars, lock, clock, loc>>
    /\ Observe(t, FALSE)

\* get_profit_loss_from_initial: self._initial_deposit is read without the
\* lock.
pnl_initial(t) ==
    /\ pc[t] = "pnl_initial"
    /\ out' = [out EXCEPT ![t] =
                 ReturnsValue(quantize_currency(
                     loc[t].equity - quantize_currency(initial_deposit)))]
    /\ pc' = [pc EXCEPT ![t] = "done"]
    /\ UNCHANGED <<acct_vars, lock, clock, loc>>
    /\ Observe(t, FALSE)

\* get_profit_loss_from_net_deposits: self._total_deposits is read without
\* the lock ...
pnl_deposits(t) ==
    /\ pc[t] = "pnl_deposits"
    /\ loc' = [loc EXCEPT ![t].td = total_deposits]
    /\ pc' = [pc EXCEPT ![t] = "pnl_withdrawals"]
    /\ UNCHANGED <<acct_vars, lock, clock, out>>
    /\ Observe(t, FALSE)

\* ... then self._total_withdrawals, and the difference is returned.
pnl_withdrawals(t) ==
    /\ pc[t] = "pnl_withdrawals"
    /\ LET net_deposited == quantize_currency(loc[t].td - total_withdrawals)
       IN  out' = [out EXCEPT ![t] =
                     ReturnsValue(quantize_currency(loc[t].equity - net_deposited))]
    /\ pc' = [pc EXCEPT ![t] = "done"]
    /\ UNCHANGED <<acct_vars, lock, clock, loc>>
    /\ Observe(t, FALSE)

\* -------------------------------------------------------- serialization
\* to_dict is called; it validates nothing before the lock.
to_dict(t) ==
    /\ CanCall(t)
    /\ StartCall(t, [Blank EXCEPT !.op = "to_dict", !.entry = "to_dict_body"], "none")

\* Under the lock: the record of the account's fields.
to_dict_body(t) ==
    /\ pc[t] = "to_dict_body"
    /\ loc' = [loc EXCEPT ![t].data = Some(AccountToDict(Acct)),
                          ![t].orig = Some(Acct)]
    /\ pc' = [pc EXCEPT ![t] = "from_dict"]
    /\ ReleaseOnReturn(t)
    /\ UNCHANGED <<acct_vars, clock, out>>
    /\ Observe(t, FALSE)

\* Account.from_dict on the record to_dict returned: it builds a new account
\* with its own lock, which no other caller can reach.
from_dict(t) ==
    /\ pc[t] = "from_dict"
    /\ out' = [out EXCEPT ![t] = ReturnsAcct(AccountFromDict(Val(loc[t].data), clock))]
    /\ pc' = [pc EXCEPT ![t] = "done"]
    /\ UNCHANGED <<acct_vars, lock, clock, loc>>
    /\ Observe(t, FALSE)

\* ------------------------------------------------------ list_transactions
\* list_transactions(start_time, end_time, types) is called; nothing is
\* validated before the lock.
list_transactions(t) ==
    /\ CanCall(t)
    /\ \E start_time \in StartTimes, end_time \in EndTimes, types \in TypeFilters :
         StartCall(t, [Blank EXCEPT !.op = "list_transactions",
                                    !.entry = "list_body",
                                    !.data = Some([start_time |-> start_time,
                                                   end_time |-> end_time,
                                                   types |-> types])],
                   "none")

\* Under the lock: the loop over the ledger; a new list of the entries kept is
\* returned.
list_body(t) ==
    /\ pc[t] = "list_body"
    /\ LET f == Val(loc[t].data)
       IN  out' = [out EXCEPT ![t] =
                     ReturnsList(ListTransactions(ledger, f.start_time,
                                                  f.end_time, f.types))]
    /\ ReleaseOnReturn(t)
    /\ pc' = [pc EXCEPT ![t] = "done"]
    /\ UNCHANGED <<acct_vars, clock, loc>>
    /\ Observe(t, FALSE)

\* -------------------------------------------------------- get_transaction
\* get_transaction(transaction_id) is called; nothing is validated before the
\* lock.
get_transaction(t) ==
    /\ CanCall(t)
    /\ \E transaction_id \in TransactionIds :
         StartCall(t, [Blank EXCEPT !.op = "get_transaction",
                                    !.entry = "get_body",
                                    !.transaction_id = transaction_id],
                   "none")

\* Under the lock: the loop over the ledger, which returns the entry found;
\* when it runs out the lock is left and InvalidTransactionError is raised.
get_body(t) ==
    /\ pc[t] = "get_body"
    /\ LET found == FindLoop(ledger, 1, loc[t].transaction_id)
       IN  out' = [out EXCEPT ![t] = IF IsNone(found)
                                     THEN Failed("InvalidTransaction")
                                     ELSE ReturnsTx(Val(found))]
    /\ ReleaseOnReturn(t)
    /\ pc' = [pc EXCEPT ![t] = "done"]
    /\ UNCHANGED <<acct_vars, clock, loc>>
    /\ Observe(t, FALSE)

\* ----------------------------------------------------------- get_holdings
\* get_holdings() is called; nothing is validated before the lock.
get_holdings(t) ==
    /\ CanCall(t)
    /\ StartCall(t, [Blank EXCEPT !.op = "get_holdings",
                                  !.entry = "get_holdings_body"],
                 "none")

\* Under the lock: dict(self._holdings), a new dict with the same items.
get_holdings_body(t) ==
    /\ pc[t] = "get_holdings_body"
    /\ out' = [out EXCEPT ![t] = ReturnsDict(holdings)]
    /\ ReleaseOnReturn(t)
    /\ pc' = [pc EXCEPT ![t] = "done"]
    /\ UNCHANGED <<acct_vars, clock, loc>>
    /\ Observe(t, FALSE)

\* -------------------------------------------------------- get_share_price
\* A caller asks the default price oracle directly; the function touches no
\* account.
call_get_share_price(t) ==
    /\ CanCall(t)
    /\ \E symbol \in PricedSymbols :
         LET r == get_share_price(symbol)
         IN  /\ loc' = [loc EXCEPT ![t] =
                          [Blank EXCEPT !.op = "get_share_price",
                                        !.data = Some([symbol |-> symbol])]]
             /\ out' = [out EXCEPT ![t] =
                          IF r.raises THEN Failed("InvalidTransaction")
                          ELSE ReturnsValue(r.ret.v)]
    /\ clock' = clock + 1
    /\ pc' = [pc EXCEPT ![t] = "done"]
    /\ UNCHANGED <<acct_vars, lock>>
    /\ Observe(t, TRUE)

\* ----------------------------------------------------------- construction
\* A caller constructs another Account; the new object is its own and shares
\* nothing with the account in use.
construct(t) ==
    /\ CanCall(t)
    /\ \E uid \in ConstructorUserIds, d \in ConstructorDeposits :
         LET r == AccountConstruct(uid, d, "USD", Now)
         IN  /\ loc' = [loc EXCEPT ![t] =
                          [Blank EXCEPT !.op = "Account", !.timestamp = Now,
                                        !.arg = d,
                                        !.data = Some([user_id |-> uid])]]
             /\ out' = [out EXCEPT ![t] =
                          IF r.raises THEN Failed("InvalidTransaction")
                          ELSE ReturnsAcct(Val(r.acct))]
    /\ clock' = clock + 1
    /\ pc' = [pc EXCEPT ![t] = "done"]
    /\ UNCHANGED <<acct_vars, lock>>
    /\ Observe(t, TRUE)

\* ------------------------------------------------------ the specification
Next ==
    \E t \in Threads :
        \/ deposit(t)
        \/ withdraw(t)
        \/ buy(t)
        \/ sell(t)
        \/ query(t)
        \/ to_dict(t)
        \/ construct(t)
        \/ list_transactions(t)
        \/ list_body(t)
        \/ get_transaction(t)
        \/ get_body(t)
        \/ call_get_share_price(t)
        \/ get_holdings(t)
        \/ get_holdings_body(t)
        \/ Acquire(t)
        \/ deposit_body(t)
        \/ withdraw_check(t)
        \/ withdraw_body(t)
        \/ buy_check(t)
        \/ buy_body(t)
        \/ sell_check(t)
        \/ sell_body(t)
        \/ read_cash(t)
        \/ read_portfolio(t)
        \/ pnl_initial(t)
        \/ pnl_deposits(t)
        \/ pnl_withdrawals(t)
        \/ to_dict_body(t)
        \/ from_dict(t)

Spec == Init /\ [][Next]_vars

\* A caller that is inside a call takes its next step.
Continue(t) ==
    \/ Acquire(t)
    \/ deposit_body(t)
    \/ withdraw_check(t)
    \/ withdraw_body(t)
    \/ buy_check(t)
    \/ buy_body(t)
    \/ sell_check(t)
    \/ sell_body(t)
    \/ read_cash(t)
    \/ read_portfolio(t)
    \/ pnl_initial(t)
    \/ pnl_deposits(t)
    \/ pnl_withdrawals(t)
    \/ to_dict_body(t)
    \/ from_dict(t)
    \/ list_body(t)
    \/ get_body(t)
    \/ get_holdings_body(t)

\* ------------------------------------- callers that modify what they hold
\* The values a caller writes into what a call handed to it.
EditedAmount == 990

EditedQuantity == 99

\* The Transaction objects thread t holds, each known by its id: the one its
\* last call returned and the elements of the list it returned. They are the
\* objects of the ledger, not copies (_record_transaction appends and returns
\* the same object; get_transaction and list_transactions return ledger
\* elements).
HeldTransactions(t) ==
    (IF IsNone(out[t].tx) THEN {} ELSE {Val(out[t].tx).id})
    \cup {out[t].txs[k].id : k \in 1..Len(out[t].txs)}

\* tx.amount = ..., or tx.resulting_holdings_snapshot[symbol] = ...
EditedTransaction(tx, field) ==
    IF field = "amount" THEN [tx EXCEPT !.amount = EditedAmount]
    ELSE [tx EXCEPT !.resulting_holdings_snapshot =
                        Some(HoldingsSet(Val(@), AAPL, EditedQuantity))]

\* A caller assigns to a field of a Transaction it holds. Transaction is a
\* plain dataclass, so the assignment goes through, and it is seen through
\* every reference to the object: the ledger's and those of other callers.
edit_transaction(t) ==
    /\ pc[t] = "done"
    /\ \E id \in HeldTransactions(t), field \in {"amount", "snapshot"} :
         LET edit(tx) == IF tx.id = id THEN EditedTransaction(tx, field) ELSE tx
         IN  /\ field = "snapshot"
                => \A i \in 1..Len(ledger) :
                      ledger[i].id = id
                      => ~IsNone(ledger[i].resulting_holdings_snapshot)
             /\ ledger' = [i \in 1..Len(ledger) |-> edit(ledger[i])]
             /\ out' = [u \in Threads |->
                          [out[u] EXCEPT
                             !.tx = IF IsNone(@) THEN @ ELSE Some(edit(Val(@))),
                             !.txs = [k \in 1..Len(@) |-> edit(@[k])]]]
    /\ UNCHANGED <<user_id, currency, cash, holdings, initial_deposit,
                   total_deposits, total_withdrawals, lock, clock, pc, loc>>
    /\ Observe(t, FALSE)

\* A caller assigns to an item of the dict get_holdings returned.
edit_holdings_dict(t) ==
    /\ pc[t] = "done"
    /\ ~IsNone(out[t].dict)
    /\ out' = [out EXCEPT ![t].dict =
                                Some(HoldingsSet(Val(@), AAPL, EditedQuantity))]
    /\ UNCHANGED <<acct_vars, lock, clock, pc, loc>>
    /\ Observe(t, FALSE)

\* A caller empties the list list_transactions returned.
edit_list(t) ==
    /\ pc[t] = "done"
    /\ Len(out[t].txs) > 0
    /\ out' = [out EXCEPT ![t].txs = <<>>]
    /\ UNCHANGED <<acct_vars, lock, clock, pc, loc>>
    /\ Observe(t, FALSE)

\* A caller changes the record to_dict returned, before it passes it on: an
\* item of its holdings, an item of the snapshot of its first ledger record
\* that has one, and the amount of its first ledger record.
edit_record(t) ==
    /\ pc[t] = "from_dict"
    /\ LET data == Val(loc[t].data)
           editRow(row) ==
               [row EXCEPT !.resulting_holdings_snapshot =
                               IF IsNone(@) THEN @
                               ELSE Some(HoldingsSet(Val(@), AAPL, EditedQuantity))]
       IN  loc' = [loc EXCEPT ![t].data =
                     Some([data EXCEPT
                             !.holdings = HoldingsSet(@, AAPL, EditedQuantity),
                             !.ledger = [i \in 1..Len(@) |-> editRow(@[i])]])]
    /\ UNCHANGED <<acct_vars, lock, clock, pc, out>>
    /\ Observe(t, FALSE)

\* The account used by callers that also modify the values handed to them.
NextWithCallerEdits ==
    \/ Next
    \/ \E t \in Threads :
          \/ edit_transaction(t)
          \/ edit_holdings_dict(t)
          \/ edit_list(t)
          \/ edit_record(t)

SpecWithCallerEdits == Init /\ [][NextWithCallerEdits]_vars

\* ------------------------------------------------------------ properties
Errors == {"InvalidTransaction", "InsufficientFunds", "InsufficientShares"}

Last(q) == q[Len(q)]

\* C1: in every reachable state cash >= 0 and every held quantity is > 0.
C1_CashAndHoldingsPositive ==
    /\ cash >= 0
    /\ \A s \in DOMAIN holdings : holdings[s] > 0

\* C2: when two concurrent calls compete for a balance that is enough for
\* either alone but not for both, at most one of them succeeds and the other
\* fails with InsufficientFunds (InsufficientShares for two sales).
C2_RaceHasOneWinner ==
    (race # "none" /\ \A t \in Threads : pc[t] = "done")
    => /\ Cardinality({t \in Threads : out[t].status = "ok"}) <= 1
       /\ \A t \in Threads :
            out[t].status # "ok"
            => out[t].status = (IF race = "funds" THEN "InsufficientFunds"
                                ELSE "InsufficientShares")

\* The step in which thread t's call ends with an error.
FailsNow(t) ==
    /\ pc'[t] = "done"
    /\ out'[t].status \in Errors
    /\ pc[t] # "done" \/ loc'[t] # loc[t]

\* C3: a call of deposit, withdraw, buy or sell that fails leaves cash,
\* holdings, the totals and the ledger as they were: the failing step assigns
\* none of them and no earlier step of that call assigned any.
C3_FailedCallChangesNothing ==
    [][\A t \in Threads :
          (FailsNow(t) /\ loc'[t].op \in MutatingOps)
          => (UNCHANGED acct_vars /\ ~loc'[t].wrote)]_vars

C3_Witness ==
    \E t \in Threads :
        /\ pc[t] = "done"
        /\ loc[t].op = "sell"
        /\ out[t].status = "InvalidTransaction"
        /\ loc[t].lookups = 1
        /\ loc[t].held >= loc[t].quantity
        /\ Len(ledger) >= 2

\* C4: the newest ledger entry carries the cash and the holdings the account
\* has had since the operation that created it (the snapshot being None
\* exactly when the holdings are empty); an account with no entry has no cash
\* and no holdings.
C4_EntryMatchesBalances ==
    IF Len(ledger) = 0
    THEN cash = 0 /\ DOMAIN holdings = {}
    ELSE /\ Last(ledger).resulting_cash_balance = cash
         /\ IsNone(Last(ledger).resulting_holdings_snapshot) <=> DOMAIN holdings = {}
         /\ ~IsNone(Last(ledger).resulting_holdings_snapshot)
            => Val(Last(ledger).resulting_holdings_snapshot) = holdings

C4_Witness ==
    /\ Len(ledger) >= 2
    /\ Last(ledger).type = "sell"
    /\ ~IsNone(ledger[Len(ledger) - 1].resulting_holdings_snapshot)
    /\ IsNone(Last(ledger).resulting_holdings_snapshot)
    /\ \E t, u \in Threads : t # u /\ pc[t] = "done" /\ pc[u] = "done"
                             /\ out[t].status = "ok" /\ out[u].status = "ok"

\* Cash according to the ledger: deposits and sales in, withdrawals and
\* purchases out.
RECURSIVE ReplayCash(_)
ReplayCash(ldg) ==
    IF Len(ldg) = 0 THEN 0
    ELSE ReplayCash(SubSeq(ldg, 1, Len(ldg) - 1))
         + (IF Last(ldg).type \in {"deposit", "sell"}
            THEN Last(ldg).amount ELSE -Last(ldg).amount)

\* Shares of symbol s according to the ledger: bought minus sold.
RECURSIVE ReplayShares(_, _)
ReplayShares(ldg, s) ==
    IF Len(ldg) = 0 THEN 0
    ELSE ReplayShares(SubSeq(ldg, 1, Len(ldg) - 1), s)
         + (IF Last(ldg).type = "buy" /\ Last(ldg).symbol = Some(s)
            THEN Val(Last(ldg).quantity)
            ELSE IF Last(ldg).type = "sell" /\ Last(ldg).symbol = Some(s)
            THEN -Val(Last(ldg).quantity)
            ELSE 0)

TradedSymbols == {Normalize(x.v) : x \in {y \in Symbols : y.kind = "str"}}

\* C5: cash and holdings equal what a replay of the ledger gives, for every
\* amount validation accepts.
C5_LedgerReplay ==
    /\ cash = ReplayCash(ledger)
    /\ \A s \in TradedSymbols : HoldingsGet(holdings, s) = ReplayShares(ledger, s)

\* C6: from_dict(to_dict(account)) has the user_id, currency, cash, holdings,
\* initial_deposit, totals and ledger of the account to_dict was taken of.
C6_RoundTrip ==
    \A t \in Threads :
        (pc[t] = "done" /\ loc[t].op = "to_dict")
        => /\ out[t].status = "ok"
           /\ Val(out[t].acct) = Val(loc[t].orig)

C6_Witness ==
    \E t \in Threads :
        /\ pc[t] = "done" /\ loc[t].op = "to_dict"
        /\ Len(Val(out[t].acct).ledger) >= 2
        /\ Val(out[t].acct).ledger[2].type = "buy"
        /\ DOMAIN Val(out[t].acct).holdings # {}
        /\ Val(out[t].acct).initial_deposit > 0

\* Total equity of one state of the account under a price lookup.
EquityOf(s, lookup) ==
    quantize_currency(quantize_currency(s.cash)
                      + PortfolioValue(s.holdings, lookup))

\* C7: the value get_total_equity returns is cash + portfolio value of one
\* single state the account was in during the call.
C7_EquityIsOneState ==
    \A t \in Threads :
        (pc[t] = "done" /\ loc[t].op = "get_total_equity" /\ out[t].status = "ok")
        => \E s \in seen[t] :
              /\ ~PortfolioFails(s.holdings, loc[t].lookup)
              /\ out[t].val = EquityOf(s, loc[t].lookup)

\* No purchase or sale changed the holdings during thread t's call.
OnlyCashMoved(t) == \A s1, s2 \in seen[t] : s1.holdings = s2.holdings

\* C8: run concurrently with deposits and withdrawals only, the two
\* profit/loss queries return equity - (total_deposits - total_withdrawals),
\* resp. equity - initial_deposit, of one single state of the account.
C8_ProfitLossIsOneState ==
    \A t \in Threads :
        (pc[t] = "done" /\ out[t].status = "ok" /\ OnlyCashMoved(t))
        => /\ loc[t].op = "get_profit_loss_from_net_deposits"
              => \E s \in seen[t] :
                    out[t].val =
                        quantize_currency(
                            EquityOf(s, loc[t].lookup)
                            - quantize_currency(s.total_deposits
                                                - s.total_withdrawals))
           /\ loc[t].op = "get_profit_loss_from_initial"
              => \E s \in seen[t] :
                    out[t].val =
                        quantize_currency(
                            EquityOf(s, loc[t].lookup)
                            - quantize_currency(initial_deposit))

\* The positions of a call that are inside `with self._lock:`.
UnderLock == {"deposit_body", "withdraw_check", "withdraw_body", "buy_check",
              "buy_body", "sell_check", "sell_body", "read_cash",
              "read_portfolio", "to_dict_body", "list_body", "get_body",
              "get_holdings_body"}

\* The lock is held by exactly the caller that is inside a locked block: a
\* caller about to acquire does not hold it, and a caller that returned or
\* raised has released it.
LockDiscipline ==
    \A t \in Threads : (lock = t) <=> (pc[t] \in UnderLock)

\* A caller inside a call can take its next step, or waits for the lock
\* while the caller holding it can take its own.
CanProgress(t) ==
    \/ ENABLED Continue(t)
    \/ /\ pc[t] = "acquire"
       /\ \E u \in Threads \ {t} : lock = u /\ ENABLED Continue(u)

\* C9: the lock is never re-entered and is released on every exit, and no
\* caller is ever stuck: whoever is inside a call can go on, or waits for a
\* lock holder that can. As no call loops, every caller completes.
C9_LockNeverDeadlocks ==
    /\ LockDiscipline
    /\ \A t \in Threads : InCall(t) => CanProgress(t)

C9_Witness ==
    \E t, u \in Threads :
        /\ t # u
        /\ pc[t] = "done" /\ out[t].status = "InsufficientShares"
        /\ lock = u /\ pc[u] = "read_portfolio"

\* C10: a sell that passed validation and asks for more than is held fails
\* with InsufficientShares without any price lookup; a lookup happens only in
\* a call whose share-count check has passed.
C10_SellFailsFast ==
    \A t \in Threads :
        (pc[t] = "done" /\ loc[t].op = "sell" /\ loc[t].quantity > 0)
        => /\ loc[t].quantity > loc[t].held
              => (out[t].status = "InsufficientShares" /\ loc[t].lookups = 0)
           /\ loc[t].lookups > 0 => loc[t].held >= loc[t].quantity

C10_Witness ==
    \E t \in Threads :
        /\ pc[t] = "done" /\ loc[t].op = "sell"
        /\ loc[t].held = 1 /\ loc[t].quantity = 2
        /\ loc[t].lookup.kind = "injected"
        /\ out[t].status = "InsufficientShares"

\* Sequence a is an initial part of sequence b.
IsPrefix(a, b) == Len(a) <= Len(b) /\ SubSeq(b, 1, Len(a)) = a

\* The step in which thread t's deposit, withdraw, buy or sell returns.
SucceedsNow(t) ==
    /\ pc[t] # "done" /\ pc'[t] = "done"
    /\ out'[t].status = "ok"
    /\ loc'[t].op \in MutatingOps

\* C11: the ledger only grows at its end: every step leaves the entries it
\* had in place and unchanged, and adds exactly one entry when it is the
\* return of a successful deposit, withdraw, buy or sell, and none otherwise.
C11_LedgerAppendOnly ==
    [][/\ IsPrefix(ledger, ledger')
       /\ Len(ledger') = Len(ledger)
                         + Cardinality({t \in Threads : SucceedsNow(t)})]_vars

C11_Witness ==
    /\ Len(ledger) = 3
    /\ IsNone(ledger[1].resulting_holdings_snapshot)
    /\ ~IsNone(ledger[2].resulting_holdings_snapshot)
    /\ ledger[3].type = "withdraw"

\* Thread t takes the step that leaves position p of its call.
StepsFrom(t, p) == pc[t] = p /\ pc'[t] # p

\* Thread t starts a call of operation op in this step.
Calls(t, op) ==
    /\ ~InCall(t)
    /\ clock' = clock + 1
    /\ loc'[t] # loc[t]
    /\ loc'[t].op = op

\* The step appends one entry of type ttype and thread t's call returns it.
AppendsAndReturns(t, ttype) ==
    /\ Len(ledger') = Len(ledger) + 1
    /\ Last(ledger').type = ttype
    /\ out'[t] = ReturnsTx(Last(ledger'))

\* The call thread t starts ends at once with InvalidTransaction when its
\* amount is not a Decimal or is not positive, and goes on otherwise.
RejectsBadAmount(t) ==
    LET bad == loc'[t].arg.kind # "Decimal" \/ loc'[t].arg.v <= 0
    IN  out'[t].status = IF bad THEN "InvalidTransaction" ELSE "none"

\* C12: withdraw(amount) fails with InvalidTransaction on a non-Decimal or
\* non-positive amount, fails with InsufficientFunds exactly when
\* cash < amount, and otherwise takes amount off cash, adds it to
\* total_withdrawals, leaves total_deposits and holdings alone, and appends
\* and returns one withdraw entry.
C12_WithdrawContract ==
    [][\A t \in Threads :
          /\ Calls(t, "withdraw") => RejectsBadAmount(t)
          /\ StepsFrom(t, "withdraw_check")
             => (out'[t].status = "InsufficientFunds" <=> cash < loc[t].amount)
          /\ StepsFrom(t, "withdraw_body")
             => /\ cash' = cash - loc[t].amount
                /\ total_withdrawals' = total_withdrawals + loc[t].amount
                /\ UNCHANGED <<total_deposits, holdings>>
                /\ AppendsAndReturns(t, "withdraw")]_vars

\* The value the price lookup of a call's frame returns for its symbol.
ResolvedPrice(l) == PriceFn(l.lookup, l.symbol_norm).ret.v

\* The step changes the holding of symbol s to quantity q (no holding when q
\* is zero) and no other holding.
HoldingBecomes(s, q) ==
    /\ DOMAIN holdings' = IF q = 0 THEN DOMAIN holdings \ {s}
                          ELSE DOMAIN holdings \cup {s}
    /\ q # 0 => holdings'[s] = q
    /\ \A x \in DOMAIN holdings \ {s} : holdings'[x] = holdings[x]

\* The number of shares of s held now.
Held(s) == IF s \in DOMAIN holdings THEN holdings[s] ELSE 0

\* The contract of buy for thread t, for a unit price p and the total cost
\* quantize(p * quantity).
BuyContract(t, p) ==
    LET l == loc[t]
        total_cost == quantize_currency(p * l.quantity)
    IN  /\ StepsFrom(t, "buy_check")
           => (out'[t].status = "InsufficientFunds" <=> cash < total_cost)
        /\ StepsFrom(t, "buy_body")
           => /\ cash' = cash - total_cost
              /\ HoldingBecomes(l.symbol_norm, Held(l.symbol_norm) + l.quantity)
              /\ UNCHANGED <<total_deposits, total_withdrawals>>
              /\ AppendsAndReturns(t, "buy")
              /\ Last(ledger').symbol = Some(l.symbol_norm)
              /\ Last(ledger').quantity = Some(l.quantity)
              /\ Last(ledger').price_per_share = Some(p)
              /\ Last(ledger').amount = total_cost
              /\ Last(ledger').total = total_cost

\* C13 as stated: buy follows its contract with p the price the lookup
\* resolved: total_cost = quantize(p * quantity), InsufficientFunds exactly
\* when cash < total_cost, else cash down by total_cost, the holding up by
\* quantity, the totals untouched, one buy entry with price_per_share = p and
\* amount = total = total_cost.
C13_BuyAtResolvedPrice ==
    [][\A t \in Threads : BuyContract(t, ResolvedPrice(loc[t]))]_vars

\* C13 amended: buy follows that contract with p the resolved price rounded
\* half-up to cents.
C13_BuyAtQuantizedPrice ==
    [][\A t \in Threads :
          BuyContract(t, quantize_currency(ResolvedPrice(loc[t])))]_vars

C13_Witness ==
    \E t \in Threads :
        /\ pc[t] = "done" /\ loc[t].op = "buy" /\ out[t].status = "ok"
        /\ loc[t].lookup = Injected(Returns(Dec(5)))
        /\ loc[t].quantity = 2
        /\ Len(ledger) = 3 /\ ledger[2].type = "buy" /\ ledger[3].type = "buy"
        /\ holdings[loc[t].symbol_norm] = 3

\* The contract of sell for thread t, for a unit price p and the proceeds
\* quantize(p * quantity).
SellContract(t, p) ==
    LET l == loc[t]
        proceeds == quantize_currency(p * l.quantity)
    IN  /\ StepsFrom(t, "sell_check")
           => (out'[t].status = "InsufficientShares"
               <=> l.quantity > Held(l.symbol_norm))
        /\ StepsFrom(t, "sell_body")
           => /\ cash' = cash + proceeds
              /\ HoldingBecomes(l.symbol_norm, Held(l.symbol_norm) - l.quantity)
              /\ UNCHANGED <<total_deposits, total_withdrawals>>
              /\ AppendsAndReturns(t, "sell")

\* C14 as stated: a sale of no more than is held adds
\* quantize(price * quantity) to cash for the price the lookup resolved, sets
\* the holding to held - quantity (no key when that is zero), leaves the other
\* holdings and the totals alone and appends one sell entry; a sale of more
\* than is held fails with InsufficientShares.
C14_SellAtResolvedPrice ==
    [][\A t \in Threads : SellContract(t, ResolvedPrice(loc[t]))]_vars

\* C14 amended: the same with the resolved price rounded half-up to cents
\* before it is multiplied.
C14_SellAtQuantizedPrice ==
    [][\A t \in Threads :
          SellContract(t, quantize_currency(ResolvedPrice(loc[t])))]_vars

C14_Witness ==
    \E t \in Threads :
        /\ pc[t] = "done" /\ loc[t].op = "sell" /\ out[t].status = "ok"
        /\ loc[t].lookup = Injected(Returns(Dec(5)))
        /\ loc[t].held = 2 /\ loc[t].quantity = 2
        /\ loc[t].symbol_norm \notin DOMAIN holdings

\* The contract of deposit for thread t, given the cash and total_deposits
\* the account is to have after a deposit of amount.
DepositContract(t, cashAfter(_), depositsAfter(_)) ==
    /\ Calls(t, "deposit") => RejectsBadAmount(t)
    /\ StepsFrom(t, "acquire") /\ loc[t].op = "deposit"
       => pc'[t] = "deposit_body"
    /\ StepsFrom(t, "deposit_body")
       => /\ cash' = cashAfter(loc[t].amount)
          /\ total_deposits' = depositsAfter(loc[t].amount)
          /\ UNCHANGED <<holdings, total_withdrawals>>
          /\ AppendsAndReturns(t, "deposit")

\* C15 as stated: a deposit with a non-Decimal or non-positive amount fails
\* with InvalidTransaction; every other deposit goes through whatever the
\* balances are, adds amount to cash and to total_deposits, leaves holdings
\* and total_withdrawals alone, and appends and returns one deposit entry.
C15_DepositAddsAmount ==
    [][\A t \in Threads :
          LET plainCash(a) == cash + a
              plainDeposits(a) == total_deposits + a
          IN  DepositContract(t, plainCash, plainDeposits)]_vars

\* C15 amended: the same, cash and total_deposits being the sums rounded
\* half-up to cents.
C15_DepositAddsRounded ==
    [][\A t \in Threads :
          LET roundedCash(a) == QuantizeHalfUp(cash + a)
              roundedDeposits(a) == QuantizeHalfUp(total_deposits + a)
          IN  DepositContract(t, roundedCash, roundedDeposits)]_vars

C15_Witness ==
    \E t \in Threads :
        /\ pc[t] = "done" /\ loc[t].op = "deposit" /\ out[t].status = "ok"
        /\ loc[t].arg = Dec(5)
        /\ Val(out[t].tx).amount = 10
        /\ Val(out[t].tx).resulting_cash_balance = 20
        /\ total_deposits = 20

\* C16: constructing with an empty user_id fails with InvalidTransaction; an
\* account constructed with initial deposit d has cash and total_deposits
\* equal to its stored initial_deposit, no holdings, and a ledger of exactly
\* one entry (a deposit of amount d with note "initial_deposit") when d > 0
\* and of none when d is zero.
C16_Construction ==
    \A t \in Threads :
        (pc[t] = "done" /\ loc[t].op = "Account")
        => LET uid == Val(loc[t].data).user_id
               d == loc[t].arg
           IN  /\ (uid.kind = "str" /\ Len(uid.v) = 0)
                  => out[t].status = "InvalidTransaction"
               /\ out[t].status = "ok"
                  => LET a == Val(out[t].acct)
                     IN  /\ a.cash = a.initial_deposit
                         /\ a.total_deposits = a.initial_deposit
                         /\ DOMAIN a.holdings = {}
                         /\ d.v > 0
                            => /\ Len(a.ledger) = 1
                               /\ a.ledger[1].type = "deposit"
                               /\ a.ledger[1].note = Some("initial_deposit")
                               /\ a.ledger[1].amount = d.v
                         /\ d.v = 0 => Len(a.ledger) = 0

\* Cash and holdings of the account before the operation that wrote entry i
\* of the ledger: those the entry before it left, or none at all.
CashBefore(i) == IF i = 1 THEN 0 ELSE ledger[i - 1].resulting_cash_balance

HoldingsBefore(i) ==
    IF i = 1 \/ IsNone(ledger[i - 1].resulting_holdings_snapshot)
    THEN EmptyHoldings
    ELSE Val(ledger[i - 1].resulting_holdings_snapshot)

\* Entries i and i + 1 are a purchase and the sale of the same shares at the
\* same unit price.
IsRoundTrip(i) ==
    /\ ledger[i].type = "buy" /\ ledger[i + 1].type = "sell"
    /\ ledger[i + 1].symbol = ledger[i].symbol
    /\ ledger[i + 1].quantity = ledger[i].quantity
    /\ ledger[i + 1].price_per_share = ledger[i].price_per_share

\* C17: a buy followed by the sell of the same quantity of the same symbol at
\* the same unit price leaves cash and holdings as they were before the buy
\* (a symbol not held before is absent again), the ledger having grown by the
\* two entries [buy, sell].
C17_BuySellRoundTrip ==
    \A i \in 1..(Len(ledger) - 1) :
        IsRoundTrip(i)
        => /\ ledger[i + 1].resulting_cash_balance = CashBefore(i)
           /\ ledger[i + 1].resulting_holdings_snapshot
                  = (IF DOMAIN HoldingsBefore(i) = {} THEN None
                     ELSE Some(HoldingsBefore(i)))
           /\ i + 1 = Len(ledger)
              => cash = CashBefore(i) /\ holdings = HoldingsBefore(i)

C17_Witness ==
    /\ Len(ledger) = 3
    /\ IsRoundTrip(2)
    /\ ledger[2].price_per_share = Some(150000)
    /\ cash = 150000
    /\ DOMAIN holdings = {}
    /\ \A t \in Threads : pc[t] = "done" /\ out[t].status = "ok"

\* The account had one and the same state all through thread t's call.
Undisturbed(t) == Cardinality(seen[t]) = 1

\* That state.
StateDuring(t) == CHOOSE s \in seen[t] : TRUE

\* C18: run with no concurrent mutation, get_profit_loss_from_initial returns
\* total equity - initial_deposit, and get_profit_loss_from_net_deposits
\* returns total equity - (total_deposits - total_withdrawals), each baseline
\* being used by its own query only.
C18_ProfitLossBaselines ==
    \A t \in Threads :
        (pc[t] = "done" /\ Undisturbed(t)
            /\ loc[t].op \in {"get_profit_loss_from_initial",
                              "get_profit_loss_from_net_deposits"})
        => LET s == StateDuring(t)
               fails == PortfolioFails(s.holdings, loc[t].lookup)
               equity == s.cash + PortfolioValue(s.holdings, loc[t].lookup)
               baseline == IF loc[t].op = "get_profit_loss_from_initial"
                           THEN initial_deposit
                           ELSE s.total_deposits - s.total_withdrawals
           IN  IF fails THEN out[t].status = "InvalidTransaction"
               ELSE out[t] = ReturnsValue(equity - baseline)

C18_Witness ==
    \E t \in Threads :
        /\ pc[t] = "done" /\ Undisturbed(t) /\ out[t].status = "ok"
        /\ loc[t].op = "get_profit_loss_from_net_deposits"
        /\ total_withdrawals > 0
        /\ initial_deposit # total_deposits - total_withdrawals
        /\ out[t].val = 0

\* The sum of f over the finite set S.
RECURSIVE SumOver(_, _)
SumOver(S, f) ==
    IF S = {} THEN 0
    ELSE LET x == CHOOSE y \in S : TRUE
         IN  f[x] + SumOver(S \ {x}, f)

\* The contract of get_portfolio_value and get_total_equity for thread t,
\* given the price price_of(s) each held symbol is valued at: the value is the
\* sum of the subtotals quantize(price_of(s) * quantity), 0.00 without
\* holdings, and the equity of an undisturbed call is cash plus that value.
ValuationContract(t, price_of(_, _)) ==
    LET l == loc[t]
        subtotal == [s \in DOMAIN holdings |->
                        QuantizeHalfUp(price_of(l.lookup, s) * holdings[s])]
        value == SumOver(DOMAIN holdings, subtotal)
    IN  (StepsFrom(t, "read_portfolio") /\ ~PortfolioFails(holdings, l.lookup))
        => /\ DOMAIN holdings = {} => value = 0
           /\ l.op = "get_portfolio_value" => out'[t] = ReturnsValue(value)
           /\ (l.op = "get_total_equity" /\ Undisturbed(t))
              => out'[t] = ReturnsValue(cash + value)

\* C19 as stated: get_portfolio_value returns the sum over the held symbols
\* of quantize(price_of(symbol) * quantity), each subtotal quantized before it
\* is added, 0.00 for no holdings; undisturbed, get_total_equity is
\* get_cash_balance() + get_portfolio_value().
C19_ValueAtLookupPrice ==
    [][\A t \in Threads :
          LET asReturned(lookup, s) == PriceFn(lookup, s).ret.v
          IN  ValuationContract(t, asReturned)]_vars

\* C19 amended: the same with every looked-up price rounded half-up to cents
\* before it is multiplied.
C19_ValueAtQuantizedPrice ==
    [][\A t \in Threads :
          LET rounded(lookup, s) == QuantizeHalfUp(PriceFn(lookup, s).ret.v)
          IN  ValuationContract(t, rounded)]_vars

C19_Witness ==
    \E t \in Threads :
        /\ pc[t] = "done" /\ loc[t].op = "get_portfolio_value"
        /\ loc[t].lookup = Injected(Returns(Dec(5)))
        /\ \E s \in DOMAIN holdings : holdings[s] = 2
        /\ out[t] = ReturnsValue(20)

\* Entry tx passes the filters f of a list_transactions call: its timestamp
\* lies within [start_time, end_time], both ends included, and its type is
\* one of types; an omitted filter lets everything pass.
PassesFilters(tx, f) ==
    /\ IsNone(f.start_time) \/ Val(f.start_time) <= tx.timestamp
    /\ IsNone(f.end_time) \/ tx.timestamp <= Val(f.end_time)
    /\ IsNone(f.types) \/ tx.type \in {Val(f.types)[k] : k \in 1..Len(Val(f.types))}

\* The k-th smallest member of a set of positions.
NthOf(positions, k) ==
    CHOOSE i \in positions : Cardinality({j \in positions : j <= i}) = k

\* C20: list_transactions returns exactly the ledger entries that pass its
\* filters, in the order they have in the ledger, and the whole ledger when no
\* filter is given.
C20_ListReturnsFiltered ==
    [][\A t \in Threads :
          StepsFrom(t, "list_body")
          => LET f == Val(loc[t].data)
                 kept == {i \in 1..Len(ledger) : PassesFilters(ledger[i], f)}
                 result == out'[t].txs
             IN  /\ out'[t].status = "ok"
                 /\ Len(result) = Cardinality(kept)
                 /\ \A k \in 1..Len(result) : result[k] = ledger[NthOf(kept, k)]
                 /\ (IsNone(f.start_time) /\ IsNone(f.end_time) /\ IsNone(f.types))
                    => result = ledger]_vars

\* A call with an end_time drops the initial deposit stamped later and
\* keeps the entry stamped exactly at the bound, although it comes second.
C20_Witness ==
    \E t \in Threads :
        /\ pc[t] = "done" /\ loc[t].op = "list_transactions"
        /\ Val(loc[t].data).end_time = Some(1)
        /\ IsNone(Val(loc[t].data).types)
        /\ Len(ledger) = 2
        /\ ledger[1].timestamp = 2 /\ ledger[2].timestamp = 1
        /\ out[t].txs = <<ledger[2]>>

\* The ids of the ledger are all different.
IdsUnique ==
    \A i, j \in 1..Len(ledger) : ledger[i].id = ledger[j].id => i = j

\* The Transaction an earlier successful deposit, withdraw, buy or sell of
\* thread u returned, if its last call was one.
ReturnedBy(u) ==
    IF pc[u] = "done" /\ loc[u].op \in MutatingOps /\ out[u].status = "ok"
    THEN out[u].tx ELSE None

\* C21: get_transaction(id) returns the one ledger entry whose id is id, in
\* particular the entry of every id an earlier successful deposit, withdraw,
\* buy or sell returned; for an id no entry has it fails with
\* InvalidTransaction and leaves the account as it was.
C21_GetTransactionById ==
    [][/\ IdsUnique
       /\ \A t \in Threads :
            StepsFrom(t, "get_body")
            => LET id == loc[t].transaction_id
                   hits == {i \in 1..Len(ledger) : ledger[i].id = id}
               IN  /\ hits = {}
                      => /\ out'[t].status = "InvalidTransaction"
                         /\ IsNone(out'[t].tx)
                   /\ \A i \in hits : out'[t] = ReturnsTx(ledger[i])
                   /\ \A u \in Threads :
                        (~IsNone(ReturnedBy(u)) /\ Val(ReturnedBy(u)).id = id)
                        => out'[t] = ReturnsTx(Val(ReturnedBy(u)))
                   /\ UNCHANGED acct_vars]_vars

\* The entry a deposit returned is found again by its id, behind the initial
\* deposit.
C21_Witness ==
    \E t, u \in Threads :
        /\ t # u
        /\ pc[t] = "done" /\ loc[t].op = "get_transaction"
        /\ loc[t].transaction_id = 2
        /\ ~IsNone(ReturnedBy(u))
        /\ out[t] = ReturnsTx(Val(ReturnedBy(u)))
        /\ Len(ledger) = 2

\* C22: total_deposits and total_withdrawals never decrease; total_deposits
\* changes only in the step that completes a deposit and total_withdrawals
\* only in the step that completes a withdraw, so that buy, sell, the queries
\* and every failing call leave both as they were.
C22_TotalsOnlyGrow ==
    [][/\ total_deposits' >= total_deposits
       /\ total_withdrawals' >= total_withdrawals
       /\ total_deposits' # total_deposits
          => \E t \in Threads : StepsFrom(t, "deposit_body") /\ SucceedsNow(t)
       /\ total_withdrawals' # total_withdrawals
          => \E t \in Threads : StepsFrom(t, "withdraw_body") /\ SucceedsNow(t)
       /\ \A t \in Threads :
            FailsNow(t) => UNCHANGED <<total_deposits, total_withdrawals>>]_vars

\* A deposit and a withdrawal have both gone through on a funded account.
C22_Witness ==
    /\ Len(ledger) = 3
    /\ ledger[2].type = "deposit" /\ ledger[3].type = "withdraw"
    /\ total_deposits > initial_deposit
    /\ total_withdrawals > 0
    /\ initial_deposit > 0

\* C23: every ledger entry is well-formed for its type: a buy or sell entry
\* has a symbol, a quantity > 0 and a price_per_share, and its total is
\* quantize(price_per_share * quantity) and equals its amount; a deposit or
\* withdraw entry has none of the three and its total equals its amount.
C23_EntriesWellFormed ==
    \A i \in 1..Len(ledger) :
        LET tx == ledger[i]
        IN  IF tx.type \in {"buy", "sell"}
            THEN /\ ~IsNone(tx.symbol)
                 /\ ~IsNone(tx.quantity) /\ Val(tx.quantity) > 0
                 /\ ~IsNone(tx.price_per_share)
                 /\ tx.total = QuantizeHalfUp(Val(tx.price_per_share)
                                              * Val(tx.quantity))
                 /\ tx.total = tx.amount
            ELSE /\ tx.type \in {"deposit", "withdraw"}
                 /\ IsNone(tx.symbol)
                 /\ IsNone(tx.quantity)
                 /\ IsNone(tx.price_per_share)
                 /\ tx.total = tx.amount

\* An initial deposit, a purchase of two shares and the sale of one of them.
C23_Witness ==
    /\ Len(ledger) = 3
    /\ ledger[1].type = "deposit"
    /\ ledger[2].type = "buy" /\ ledger[2].quantity = Some(2)
    /\ ledger[2].total = 2 * Val(ledger[2].price_per_share)
    /\ ledger[3].type = "sell" /\ ledger[3].quantity = Some(1)

\* A value counted in thousandths is an exact multiple of 0.01.
IsCents(n) == n % 10 = 0

\* The monetary fields of one Transaction are multiples of 0.01.
TxIsCents(tx) ==
    /\ IsCents(tx.amount)
    /\ IsCents(tx.total)
    /\ IsCents(tx.resulting_cash_balance)
    /\ ~IsNone(tx.price_per_share) => IsCents(Val(tx.price_per_share))

\* The monetary fields of an account, given as a record, and of its ledger
\* are multiples of 0.01.
AcctIsCents(a) ==
    /\ IsCents(a.cash)
    /\ IsCents(a.initial_deposit)
    /\ IsCents(a.total_deposits)
    /\ IsCents(a.total_withdrawals)
    /\ \A i \in 1..Len(a.ledger) : TxIsCents(a.ledger[i])

\* C24: every monetary value the account stores (cash, initial_deposit, the
\* two totals, and amount, price_per_share, total and resulting_cash_balance
\* of every entry) and every value a call returned (a query result, a
\* Transaction, a list of them, a constructed or rebuilt account) is an exact
\* multiple of 0.01, also after amounts and prices with three fraction digits.
C24_AllMoneyInCents ==
    /\ AcctIsCents(Acct)
    /\ \A t \in Threads :
          /\ IsCents(out[t].val)
          /\ ~IsNone(out[t].tx) => TxIsCents(Val(out[t].tx))
          /\ ~IsNone(out[t].acct) => AcctIsCents(Val(out[t].acct))
          /\ \A k \in 1..Len(out[t].txs) : TxIsCents(out[t].txs[k])

\* A deposit of 0.005 and a purchase at a looked-up price of 0.005 have both
\* been recorded, each as 0.01.
C24_Witness ==
    /\ Len(ledger) = 2
    /\ ledger[1].type = "deposit" /\ ledger[1].amount = 10
    /\ ledger[2].type = "buy" /\ ledger[2].price_per_share = Some(10)
    /\ \E t \in Threads :
          /\ pc[t] = "done" /\ loc[t].op = "deposit" /\ loc[t].arg = Dec(5)
    /\ \E t \in Threads :
          /\ pc[t] = "done" /\ loc[t].op = "buy"
          /\ loc[t].lookup = Injected(Returns(Dec(5)))
    /\ cash = 0

\* A symbol is non-empty, has no space at either end and no lower-case
\* letter.
LowerCase == {"a", "g", "l", "o", "p", "s", "t"}

IsNormalSymbol(s) ==
    /\ Len(s) > 0
    /\ s[1] # " " /\ s[Len(s)] # " "
    /\ \A i \in 1..Len(s) : s[i] \notin LowerCase

\* Thread t's last call was a successful buy or sell.
Traded(t) ==
    /\ pc[t] = "done" /\ loc[t].op \in {"buy", "sell"}
    /\ out[t].status = "ok"

\* Two spellings differ in case and surrounding whitespace only.
SameSymbol(x, y) == Upper(Strip(x)) = Upper(Strip(y))

\* C25: every key of holdings and every symbol of a buy or sell entry is a
\* non-empty, trimmed, upper-case string, and two successful trades whose
\* symbols differ in case or surrounding whitespace only are recorded under
\* one and the same symbol.
C25_SymbolsNormalized ==
    /\ \A s \in DOMAIN holdings : IsNormalSymbol(s)
    /\ \A i \in 1..Len(ledger) :
          ledger[i].type \in {"buy", "sell"}
          => IsNormalSymbol(Val(ledger[i].symbol))
    /\ \A t, u \in Threads :
          (Traded(t) /\ Traded(u)
             /\ SameSymbol(Val(loc[t].data).symbol.v, Val(loc[u].data).symbol.v))
          => Val(out[t].tx).symbol = Val(out[u].tx).symbol

\* The price table of the default lookup: 150.00, 700.00 and 2700.00 for
\* AAPL, TSLA and GOOGL in any case and with any surrounding whitespace; a
\* failure for everything else.
DefaultPrice(symbol) ==
    IF symbol.kind # "str" THEN Raises
    ELSE LET s == Upper(Strip(symbol.v))
         IN  IF s = AAPL THEN Returns(Dec(150000))
             ELSE IF s = TSLA THEN Returns(Dec(700000))
             ELSE IF s = GOOGL THEN Returns(Dec(2700000))
             ELSE Raises

\* What the lookup chosen by a price_lookup argument gives for symbol s: the
\* injected callable's outcome when one was supplied, the default table's
\* otherwise.
ChosenPrice(lookup, s) ==
    IF lookup.kind = "injected" THEN lookup.outcome ELSE DefaultPrice(StrV(s))

\* That lookup gives no usable price.
NoPrice(lookup, s) ==
    ChosenPrice(lookup, s).raises \/ ChosenPrice(lookup, s).ret.kind # "Decimal"

\* C26: get_share_price follows its table and fails with InvalidTransaction
\* for an empty, non-string or unsupported symbol; buy, sell and
\* get_portfolio_value take their price from the injected lookup when one is
\* supplied and from that table otherwise: a trade is recorded at the chosen
\* price (in cents), a buy or a valuation fails with InvalidTransaction
\* exactly when the chosen lookup gives no price.
C26_LookupIsPluggable ==
    [][\A t \in Threads :
          /\ Calls(t, "get_share_price")
             => LET r == DefaultPrice(Val(loc'[t].data).symbol)
                IN  out'[t] = IF r.raises THEN Failed("InvalidTransaction")
                              ELSE ReturnsValue(r.ret.v)
          /\ (Calls(t, "buy") /\ loc'[t].lookups = 1)
             => (out'[t].status = "InvalidTransaction"
                 <=> NoPrice(loc'[t].lookup, loc'[t].symbol_norm))
          /\ (StepsFrom(t, "buy_body") \/ StepsFrom(t, "sell_body"))
             => Last(ledger').price_per_share
                  = Some(QuantizeHalfUp(
                        ChosenPrice(loc[t].lookup, loc[t].symbol_norm).ret.v))
          /\ (StepsFrom(t, "read_portfolio") /\ loc[t].op = "get_portfolio_value")
             => LET l == loc[t]
                    subtotal == [s \in DOMAIN holdings |->
                                    QuantizeHalfUp(
                                        QuantizeHalfUp(ChosenPrice(l.lookup, s).ret.v)
                                        * holdings[s])]
                IN  IF \E s \in DOMAIN holdings : NoPrice(l.lookup, s)
                    THEN out'[t].status = "InvalidTransaction"
                    ELSE out'[t] = ReturnsValue(SumOver(DOMAIN holdings, subtotal))]_vars

\* A share bought at an injected price of 0.01 is valued at 150.00 by a
\* query that passes no lookup.
C26_Witness ==
    \E t, u \in Threads :
        /\ t # u
        /\ pc[t] = "done" /\ loc[t].op = "buy" /\ out[t].status = "ok"
        /\ loc[t].lookup.kind = "injected"
        /\ Val(out[t].tx).price_per_share = Some(10)
        /\ pc[u] = "done" /\ loc[u].op = "get_portfolio_value"
        /\ loc[u].lookup = DefaultLookup
        /\ out[u] = ReturnsValue(150000)

\* get_share_price was asked for "googl " and answered 2700.00.
C26_WitnessTable ==
    \E t \in Threads :
        /\ pc[t] = "done" /\ loc[t].op = "get_share_price"
        /\ Val(loc[t].data).symbol = StrV(<<"g", "o", "o", "g", "l", " ">>)
        /\ out[t] = ReturnsValue(2700000)

\* An amount, a quantity or a symbol argument that validation must reject.
BadAmount(a) == a.kind # "Decimal" \/ a.v <= 0

BadQuantity(q) == q.kind # "int" \/ q.v <= 0

BadSymbol(x) == x.kind # "str" \/ Len(x.v) = 0

\* C27: errors come in the order of the checks. A deposit or withdraw with a
\* non-positive (or non-Decimal) amount ends with InvalidTransaction in the
\* step of the call, whatever the cash; so does a buy with an invalid
\* quantity or with a symbol its lookup does not price, so that a buy ending
\* with InsufficientFunds had a valid quantity and a price; a sell of more
\* than is held ends with InsufficientShares and no lookup made, also when
\* the lookup would have failed.
C27_ErrorPrecedence ==
    [][\A t \in Threads :
          /\ (Calls(t, "deposit") \/ Calls(t, "withdraw"))
             => (BadAmount(loc'[t].arg)
                 => pc'[t] = "done" /\ out'[t].status = "InvalidTransaction")
          /\ Calls(t, "buy")
             => LET a == Val(loc'[t].data)
                    unpriced == /\ ~BadSymbol(a.symbol)
                                /\ NoPrice(loc'[t].lookup, Upper(Strip(a.symbol.v)))
                                /\ loc'[t].lookups = 1
                IN  (BadQuantity(a.quantity) \/ unpriced)
                    => pc'[t] = "done" /\ out'[t].status = "InvalidTransaction"
          /\ (StepsFrom(t, "buy_check") /\ out'[t].status = "InsufficientFunds")
             => /\ ~BadQuantity(Val(loc[t].data).quantity)
                /\ ~NoPrice(loc[t].lookup, loc[t].symbol_norm)
          /\ (StepsFrom(t, "sell_check")
                /\ Held(loc[t].symbol_norm) < loc[t].quantity)
             => /\ out'[t].status = "InsufficientShares"
                /\ loc'[t].lookups = 0]_vars

\* On an account without cash a buy of zero shares ended with
\* InvalidTransaction, and a sale of an unheld symbol with a lookup that
\* raises ended with InsufficientShares.
C27_Witness ==
    \E t, u \in Threads :
        /\ t # u
        /\ cash = 0
        /\ pc[t] = "done" /\ loc[t].op = "buy"
        /\ Val(loc[t].data).symbol = StrV(AAPL)
        /\ Val(loc[t].data).quantity = IntV(0)
        /\ out[t].status = "InvalidTransaction"
        /\ pc[u] = "done" /\ loc[u].op = "sell"
        /\ loc[u].lookup = Injected(Raises)
        /\ out[u].status = "InsufficientShares"

\* C28: whatever Decimal the lookup returned, the step that completes a sell
\* does not lower cash and the step that completes a buy does not raise it,
\* and neither takes cash from >= 0 to below 0.
C28_TradesMoveCashOneWay ==
    [][\A t \in Threads :
          /\ StepsFrom(t, "sell_body") => cash' >= cash
          /\ StepsFrom(t, "buy_body") => cash' <= cash
          /\ (StepsFrom(t, "sell_body") \/ StepsFrom(t, "buy_body"))
             => (cash >= 0 => cash' >= 0)]_vars

\* C29: every entry of the ledger has an amount strictly greater than zero,
\* whatever amount passed validation.
C29_AmountsPositive ==
    \A i \in 1..Len(ledger) : ledger[i].amount > 0

\* The same for the entries of deposits and withdrawals alone.
CashEntriesPositive ==
    \A i \in 1..Len(ledger) :
        ledger[i].type \in {"deposit", "withdraw"} => ledger[i].amount > 0

\* Every symbol held in h has a price under the lookup.
AllPriced(h, lookup) == \A s \in DOMAIN h : ~NoPrice(lookup, s)

\* Total equity of cash c and holdings h under a price table: c plus the
\* value of every holding at the table's price in cents.
EquityAt(c, h, lookup) ==
    LET value == [s \in DOMAIN h |->
                     QuantizeHalfUp(QuantizeHalfUp(ChosenPrice(lookup, s).ret.v)
                                    * h[s])]
    IN  c + SumOver(DOMAIN h, value)

\* The step changes the total equity under the table by d, and the profit
\* over net deposits, equity - (total_deposits - total_withdrawals), not at
\* all.
EquityMoves(lookup, d) ==
    (AllPriced(holdings, lookup) /\ AllPriced(holdings', lookup))
    => /\ EquityAt(cash', holdings', lookup)
            = EquityAt(cash, holdings, lookup) + d
       /\ EquityAt(cash', holdings', lookup)
              - (total_deposits' - total_withdrawals')
            = EquityAt(cash, holdings, lookup)
              - (total_deposits - total_withdrawals)

\* C30: under a price table that stays the same, a successful buy or sell
\* priced by the table leaves the total equity unchanged, a successful
\* deposit of an amount in cents raises it by the amount and a successful
\* withdraw lowers it by the amount; the profit over net deposits is 0.00 on
\* the new account and is changed by none of these steps; undisturbed,
\* get_total_equity and get_profit_loss_from_net_deposits return these two
\* values.
C30_EquityConserved ==
    [][/\ clock = 0 => cash - (total_deposits - total_withdrawals) = 0
       /\ \A t \in Threads :
            /\ (StepsFrom(t, "buy_body") \/ StepsFrom(t, "sell_body"))
               => EquityMoves(loc[t].lookup, 0)
            /\ (StepsFrom(t, "deposit_body") /\ IsCents(loc[t].amount))
               => \A lookup \in Lookups : EquityMoves(lookup, loc[t].amount)
            /\ (StepsFrom(t, "withdraw_body") /\ IsCents(loc[t].amount))
               => \A lookup \in Lookups : EquityMoves(lookup, -loc[t].amount)
            /\ (StepsFrom(t, "read_portfolio") /\ Undisturbed(t)
                  /\ loc[t].op = "get_total_equity"
                  /\ AllPriced(holdings, loc[t].lookup))
               => out'[t] = ReturnsValue(EquityAt(cash, holdings, loc[t].lookup))
            /\ (StepsFrom(t, "pnl_withdrawals") /\ Undisturbed(t))
               => out'[t] = ReturnsValue(
                                EquityAt(cash, holdings, loc[t].lookup)
                                - (total_deposits - total_withdrawals))]_vars

\* After a purchase priced by the default table, the profit over net
\* deposits under that table is reported as 0.00.
C30_Witness ==
    \E t, u \in Threads :
        /\ t # u
        /\ pc[u] = "done" /\ loc[u].op = "buy" /\ out[u].status = "ok"
        /\ pc[t] = "done" /\ loc[t].op = "get_profit_loss_from_net_deposits"
        /\ loc[t].lookup = loc[u].lookup
        /\ Undisturbed(t)
        /\ DOMAIN holdings # {}
        /\ cash < total_deposits
        /\ out[t] = ReturnsValue(0)

\* Entry i was stamped with the wall clock read by its own call: every entry
\* of a deposit, withdraw, buy or sell (their callers pass no timestamp), and
\* the initial deposit when the constructor was given none (tick 0).
StampedByClock(i) ==
    ledger[i].note # Some("initial_deposit") \/ ledger[i].timestamp = 0

\* C31: the timestamps the calls read from the wall clock do not decrease
\* along the ledger, also when the calls overlap.
C31_TimestampsInOrder ==
    \A i, j \in 1..Len(ledger) :
        (i < j /\ StampedByClock(i) /\ StampedByClock(j))
        => ledger[i].timestamp <= ledger[j].timestamp

\* A step in which no call starts and no call moves on: a caller's own code
\* working on what it holds.
CallerEdit == UNCHANGED <<pc, clock>>

\* C32: whatever a caller does to the values handed to it (the dict of
\* get_holdings, the list of list_transactions, the record of to_dict, a
\* Transaction returned by an operation or a query), the account's holdings
\* and its ledger, snapshots included, stay as they are.
C32_ReturnedValuesIsolated ==
    [][CallerEdit => UNCHANGED <<holdings, ledger>>]_vars

\* The step leaves every Transaction a caller holds as it is.
NoTransactionEdited ==
    \A t \in Threads :
        /\ out'[t].tx = out[t].tx
        /\ out'[t].txs = out[t].txs \/ out'[t].txs = <<>>

\* The same for the dict, the list and the record alone.
CopiesIsolated ==
    [][(CallerEdit /\ NoTransactionEdited)
       => UNCHANGED <<holdings, ledger>>]_vars

====
